---- MODULE Spec2Model ----
(***************************************************************************)
(* A model of the PersonaSpec observation pipeline.                        *)
(*                                                                         *)
(* The ObservationCollector (core/ObservationCollector.ts) is modelled as  *)
(* a state machine over a small object heap: JavaScript arrays and objects *)
(* are heap cells reached through addresses, so that a shallow copy        *)
(* ([...xs], {...o}) shares the cells of its elements with the original,   *)
(* exactly as the language does.  Asynchronous methods (screenshot, save)  *)
(* are split at their await points; each resumption is a step of its own.  *)
(***************************************************************************)
EXTENDS Integers, Sequences, FiniteSets, TLC

(***************************************************************************)
(* Bounds of the model.                                                    *)
(***************************************************************************)
\* number of operations a caller invokes on one collector
MaxOps == 3
\* largest value of the wall clock (milliseconds); the clock starts at 0
MaxClock == 1

(***************************************************************************)
(* JavaScript values.                                                      *)
(***************************************************************************)
\* an optional value: <<>> is undefined, <<v>> is the value v
Undefined == <<>>

Some(v) == <<v>>

\* JavaScript truthiness of an optional number: undefined and 0 are falsy
Truthy(x) == x # Undefined /\ x[1] # 0

\* new Date().toISOString() of the clock value t
ToISOString(t) == [iso |-> t]

\* Buffer.toString('base64')
ToBase64(buf) == [base64 |-> buf]

\* the empty string
EmptyString == [base64 |-> "none"]

(***************************************************************************)
(* Inputs.                                                                 *)
(***************************************************************************)
\* [a-zA-Z0-9-_] restricted to NameChars
SafeNameChars == {"a", "b", "-"}

\* names passed to screenshot(): distinct names that sanitize to the same string
ScreenshotNames == {<<"a", " ">>, <<"a", "-">>}

\* the type and the options argument of observe(): the options are absent, or
\* carry a severity and a recommendation
ObserveInputs ==
  { [type |-> "success", options |-> Undefined],
    [type |-> "frustration",
     options |-> Some([severity |-> "critical", recommendation |-> "fix it"])] }

ConsoleMessages == {"e1", "e2"}

\* the image bytes page.screenshot() returns
Buffers == {"img1"}

\* the value a caller writes through a returned snapshot
Tampered == "tampered"

\* the persona handed to the constructor
Persona0 ==
  [name |-> <<"A", " ", " ", "b">>, role |-> "Visitor", background |-> "New to the site",
   goals |-> <<"Understand the product">>, behaviors |-> <<"Skims headings">>]

OutputDir == "test-results"

(***************************************************************************)
(* State.                                                                  *)
(***************************************************************************)
VARIABLES
  heap,              \* the JavaScript heap: address -> array or object
  config,            \* ObservationCollector.config
  observations,      \* ObservationCollector.observations (address of the array)
  screenshots,       \* ObservationCollector.screenshots (address of the array)
  tasks,             \* ObservationCollector.tasks (address of the array)
  metrics,           \* ObservationCollector.metrics (address of the object)
  currentTaskStart,  \* ObservationCollector.currentTaskStart
  now,               \* the wall clock read by Date.now() and new Date()
  calls,             \* the asynchronous calls suspended at an await
  dirs,              \* the directories that exist on disk
  disk,              \* the files on disk: path -> content
  returned,          \* the value an accessor last returned to the caller
  lastOp,            \* the operation (or resumption) that produced this state; an
                     \* asynchronous call carries the collector state it was entered in
  nOps,              \* number of operations invoked so far
  startedAt,         \* history: clock value of the last startTask() not yet consumed
  writeLog,          \* history: the file writes that ran to completion
  defineCall,        \* a call of definePersona() or of a template, and its outcome
  report,            \* the artifact generateHtml() is given and the pages it returned
  analyze,           \* a run of the analyze command: its inputs, position and effects
  initCommand,       \* a run of the init command: its options, position and the project files
  nav                \* the site's navigation: the classes and attributes main.js sets

collector == <<heap, observations, screenshots, tasks, metrics, currentTaskStart>>

session ==
  <<heap, config, observations, screenshots, tasks, metrics, currentTaskStart, now,
    calls, dirs, disk, returned, lastOp, nOps, startedAt, writeLog>>

\* what the package holds besides a collector's session
site == <<initCommand, nav>>

library == <<defineCall, report, analyze, site>>

vars == <<session, library>>

(***************************************************************************)
(* Heap helpers.                                                           *)
(***************************************************************************)
\* a fresh address for a new object of the given kind
Fresh(kind) == <<kind, Cardinality({a \in DOMAIN heap : a[1] = kind})>>

\* the objects an array of addresses points to
Deref(h, arr) == [i \in 1..Len(h[arr]) |-> h[h[arr][i]]]

\* the collector's fields with every address followed
Observations == Deref(heap, observations)

Screenshots == Deref(heap, screenshots)

Tasks == Deref(heap, tasks)

Metrics == heap[metrics]

ConsoleErrors == heap[heap[metrics].consoleErrors]

PersonaFields ==
  [name |-> config.persona.name, role |-> config.persona.role,
   background |-> config.persona.background, goals |-> heap[config.persona.goals],
   behaviors |-> heap[config.persona.behaviors]]

\* everything the collector holds, as values
CollectorState ==
  [observations |-> Observations, screenshots |-> Screenshots, tasks |-> Tasks,
   metrics |-> [Metrics EXCEPT !.consoleErrors = ConsoleErrors],
   currentTaskStart |-> currentTaskStart, persona |-> PersonaFields]

\* the initial value of this.metrics (constructor and reset)
NewMetrics(errs) ==
  [startTime |-> ToISOString(now), endTime |-> Undefined, pagesVisited |-> 0,
   clickCount |-> 0, searchCount |-> 0, backNavCount |-> 0, consoleErrors |-> errs,
   screenshotsCaptured |-> Undefined]

\* the configurations a caller may pass to the constructor
CollectorConfigs ==
  { [outputDir |-> OutputDir, persona |-> Persona0, options |-> o] :
      o \in { Undefined, Some([includeBase64 |-> FALSE, screenshotFormat |-> "jpeg"]) } }

\* { includeBase64: true, screenshotFormat: 'png', ...config }
MergeDefaults(cfg, goalsAt, behaviorsAt) ==
  [outputDir |-> cfg.outputDir,
   persona |-> [name |-> cfg.persona.name, role |-> cfg.persona.role,
                background |-> cfg.persona.background,
                goals |-> goalsAt, behaviors |-> behaviorsAt],
   includeBase64 |-> IF cfg.options = Undefined THEN TRUE ELSE cfg.options[1].includeBase64,
   screenshotFormat |->
     IF cfg.options = Undefined THEN "png" ELSE cfg.options[1].screenshotFormat]

(***************************************************************************)
(* new ObservationCollector(config)                                        *)
(***************************************************************************)
Init ==
  /\ now = 0
  /\ \E cfg \in CollectorConfigs :
       /\ config = MergeDefaults(cfg, <<"goals", 0>>, <<"behaviors", 0>>)
       /\ heap = (<<"goals", 0>> :> cfg.persona.goals)
                 @@ (<<"behaviors", 0>> :> cfg.persona.behaviors)
                 @@ (<<"observations", 0>> :> <<>>)
                 @@ (<<"screenshots", 0>> :> <<>>)
                 @@ (<<"tasks", 0>> :> <<>>)
                 @@ (<<"consoleErrors", 0>> :> <<>>)
                 @@ (<<"metrics", 0>> :> NewMetrics(<<"consoleErrors", 0>>))
  /\ observations = <<"observations", 0>>
  /\ screenshots = <<"screenshots", 0>>
  /\ tasks = <<"tasks", 0>>
  /\ metrics = <<"metrics", 0>>
  /\ currentTaskStart = Undefined
  /\ calls = <<>>
  /\ dirs = {}
  /\ disk = <<>>
  /\ returned = [kind |-> "none"]
  /\ lastOp = [op |-> "constructor"]
  /\ nOps = 0
  /\ startedAt = Undefined
  /\ writeLog = {}
  /\ defineCall = [op |-> "none"]
  /\ initCommand = [op |-> "none"]
  /\ nav = [op |-> "none"]
  /\ report = [op |-> "none"]
  /\ analyze = [op |-> "none"]

\* the caller invokes one more operation
Invoke == nOps < MaxOps /\ nOps' = nOps + 1

\* the wall clock advances by a millisecond
Tick ==
  /\ now < MaxClock
  /\ now' = now + 1
  /\ lastOp' = [op |-> "tick"]
  /\ UNCHANGED <<collector, config, calls, dirs, disk, returned, nOps, startedAt, writeLog>>

(***************************************************************************)
(* Synchronous methods.                                                    *)
(***************************************************************************)
\* the object observe() pushes: { type, description, location, timestamp, ...options }
ObservationRecord(type, description, location, options) ==
  IF options = Undefined
    THEN [type |-> type, description |-> description, location |-> location,
          timestamp |-> ToISOString(now)]
    ELSE [type |-> type, description |-> description, location |-> location,
          timestamp |-> ToISOString(now), severity |-> options[1].severity,
          recommendation |-> options[1].recommendation]

\* a variant of observe: this.observations.unshift(observation)
observePrepends(type, description, location, options) ==
  /\ Invoke
  /\ LET a == Fresh("observation") IN
       heap' = [heap EXCEPT ![observations] = <<a>> \o @]
               @@ (a :> ObservationRecord(type, description, location, options))
  /\ lastOp' = [op |-> "observe"]
  /\ UNCHANGED <<config, observations, screenshots, tasks, metrics, currentTaskStart, now,
                 calls, dirs, disk, returned, startedAt, writeLog>>

observe(type, description, location, options) ==
  /\ Invoke
  /\ LET a == Fresh("observation") IN
       heap' = [heap EXCEPT ![observations] = Append(@, a)]
               @@ (a :> ObservationRecord(type, description, location, options))
  /\ lastOp' = [op |-> "observe"]
  /\ UNCHANGED <<config, observations, screenshots, tasks, metrics, currentTaskStart, now,
                 calls, dirs, disk, returned, startedAt, writeLog>>

startTask ==
  /\ Invoke
  /\ currentTaskStart' = Some(now)
  /\ startedAt' = Some(now)
  /\ lastOp' = [op |-> "startTask"]
  /\ UNCHANGED <<heap, config, observations, screenshots, tasks, metrics, now, calls, dirs,
                 disk, returned, writeLog>>

\* a variant of Duration: Date.now() - (this.currentTaskStart ?? 0)
DurationSinceEpoch(start, t) == IF Truthy(start) THEN t - start[1] ELSE t

\* this.currentTaskStart ? Date.now() - this.currentTaskStart : 0
Duration(start, t) == IF Truthy(start) THEN t - start[1] ELSE 0

recordTask(name, success, notes) ==
  /\ Invoke
  /\ LET a == Fresh("task")
         result == [name |-> name, success |-> success,
                    duration |-> Duration(currentTaskStart, now), notes |-> notes]
     IN /\ heap' = [heap EXCEPT ![tasks] = Append(@, a)] @@ (a :> result)
        /\ lastOp' = [op |-> "recordTask", ret |-> result, pending |-> startedAt]
  /\ currentTaskStart' = Undefined
  /\ startedAt' = Undefined
  /\ UNCHANGED <<config, observations, screenshots, tasks, metrics, now, calls, dirs, disk,
                 returned, writeLog>>

trackPageLoad ==
  /\ Invoke
  /\ heap' = [heap EXCEPT ![metrics].pagesVisited = @ + 1]
  /\ lastOp' = [op |-> "trackPageLoad"]
  /\ UNCHANGED <<config, observations, screenshots, tasks, metrics, currentTaskStart, now,
                 calls, dirs, disk, returned, startedAt, writeLog>>

trackClick ==
  /\ Invoke
  /\ heap' = [heap EXCEPT ![metrics].clickCount = @ + 1]
  /\ lastOp' = [op |-> "trackClick"]
  /\ UNCHANGED <<config, observations, screenshots, tasks, metrics, currentTaskStart, now,
                 calls, dirs, disk, returned, startedAt, writeLog>>

\* a variant of trackSearch: the click counter is incremented instead
trackSearchCountsClick ==
  /\ Invoke
  /\ heap' = [heap EXCEPT ![metrics].clickCount = @ + 1]
  /\ lastOp' = [op |-> "trackSearch"]
  /\ UNCHANGED <<config, observations, screenshots, tasks, metrics, currentTaskStart, now,
                 calls, dirs, disk, returned, startedAt, writeLog>>

trackSearch ==
  /\ Invoke
  /\ heap' = [heap EXCEPT ![metrics].searchCount = @ + 1]
  /\ lastOp' = [op |-> "trackSearch"]
  /\ UNCHANGED <<config, observations, screenshots, tasks, metrics, currentTaskStart, now,
                 calls, dirs, disk, returned, startedAt, writeLog>>

trackBackNav ==
  /\ Invoke
  /\ heap' = [heap EXCEPT ![metrics].backNavCount = @ + 1]
  /\ lastOp' = [op |-> "trackBackNav"]
  /\ UNCHANGED <<config, observations, screenshots, tasks, metrics, currentTaskStart, now,
                 calls, dirs, disk, returned, startedAt, writeLog>>

addConsoleError(message) ==
  /\ Invoke
  /\ heap' = [heap EXCEPT ![heap[metrics].consoleErrors] = Append(@, message)]
  /\ lastOp' = [op |-> "addConsoleError", message |-> message]
  /\ UNCHANGED <<config, observations, screenshots, tasks, metrics, currentTaskStart, now,
                 calls, dirs, disk, returned, startedAt, writeLog>>

\* a variant of reset: the pending task start is not cleared
resetKeepsPendingStart ==
  /\ Invoke
  /\ LET o == Fresh("observations")
         s == Fresh("screenshots")
         t == Fresh("tasks")
         e == Fresh("consoleErrors")
         m == Fresh("metrics")
     IN /\ heap' = heap @@ (o :> <<>>) @@ (s :> <<>>) @@ (t :> <<>>) @@ (e :> <<>>)
                        @@ (m :> NewMetrics(e))
        /\ observations' = o
        /\ screenshots' = s
        /\ tasks' = t
        /\ metrics' = m
  /\ lastOp' = [op |-> "reset"]
  /\ UNCHANGED <<config, currentTaskStart, now, calls, dirs, disk, returned, startedAt,
                 writeLog>>

reset ==
  /\ Invoke
  /\ LET o == Fresh("observations")
         s == Fresh("screenshots")
         t == Fresh("tasks")
         e == Fresh("consoleErrors")
         m == Fresh("metrics")
     IN /\ heap' = heap @@ (o :> <<>>) @@ (s :> <<>>) @@ (t :> <<>>) @@ (e :> <<>>)
                        @@ (m :> NewMetrics(e))
        /\ observations' = o
        /\ screenshots' = s
        /\ tasks' = t
        /\ metrics' = m
  /\ currentTaskStart' = Undefined
  /\ startedAt' = Undefined
  /\ lastOp' = [op |-> "reset"]
  /\ UNCHANGED <<config, now, calls, dirs, disk, returned, writeLog>>

(***************************************************************************)
(* Accessors.  Each returns a fresh array or object whose slots hold the   *)
(* same addresses as the collector's own: [...xs] and {...o} copy one      *)
(* level.                                                                  *)
(***************************************************************************)
\* [...array]: a new array cell with the same elements
SpreadArray(arr) == heap[arr]

\* {...object}: a new object cell with the same field values
SpreadObject(obj) == obj

getObservations ==
  /\ Invoke
  /\ LET r == Fresh("returned") IN
       /\ heap' = heap @@ (r :> SpreadArray(observations))
       /\ returned' = [kind |-> "observations", ref |-> r]
  /\ lastOp' = [op |-> "getObservations"]
  /\ UNCHANGED <<config, observations, screenshots, tasks, metrics, currentTaskStart, now,
                 calls, dirs, disk, startedAt, writeLog>>

\* a variant of getMetrics: return this.metrics itself
getMetricsNoCopy ==
  /\ Invoke
  /\ returned' = [kind |-> "metrics", ref |-> metrics]
  /\ lastOp' = [op |-> "getMetrics"]
  /\ UNCHANGED <<collector, config, now, calls, dirs, disk, startedAt, writeLog>>

getMetrics ==
  /\ Invoke
  /\ LET r == Fresh("returned") IN
       /\ heap' = heap @@ (r :> SpreadObject(heap[metrics]))
       /\ returned' = [kind |-> "metrics", ref |-> r]
  /\ lastOp' = [op |-> "getMetrics"]
  /\ UNCHANGED <<config, observations, screenshots, tasks, metrics, currentTaskStart, now,
                 calls, dirs, disk, startedAt, writeLog>>

getTasks ==
  /\ Invoke
  /\ LET r == Fresh("returned") IN
       /\ heap' = heap @@ (r :> SpreadArray(tasks))
       /\ returned' = [kind |-> "tasks", ref |-> r]
  /\ lastOp' = [op |-> "getTasks"]
  /\ UNCHANGED <<config, observations, screenshots, tasks, metrics, currentTaskStart, now,
                 calls, dirs, disk, startedAt, writeLog>>

getPersona ==
  /\ Invoke
  /\ LET r == Fresh("returned") IN
       /\ heap' = heap @@ (r :> SpreadObject(config.persona))
       /\ returned' = [kind |-> "persona", ref |-> r]
  /\ lastOp' = [op |-> "getPersona"]
  /\ UNCHANGED <<config, observations, screenshots, tasks, metrics, currentTaskStart, now,
                 calls, dirs, disk, startedAt, writeLog>>

(***************************************************************************)
(* What a caller can do with a returned value: JavaScript lets it write    *)
(* any slot of the returned array or object, and any slot of whatever      *)
(* those slots point to.                                                   *)
(***************************************************************************)
\* a write to the returned array or object itself
\* (snapshot.length = 0; snapshot.pagesVisited = -1; snapshot.role = ...)
callerWritesReturned ==
  /\ Invoke
  /\ returned.kind # "none"
  /\ heap' =
       CASE returned.kind \in {"observations", "tasks"} ->
              [heap EXCEPT ![returned.ref] = <<>>]
         [] returned.kind = "metrics" ->
              [heap EXCEPT ![returned.ref].pagesVisited = -1]
         [] returned.kind = "persona" ->
              [heap EXCEPT ![returned.ref].role = Tampered]
  /\ lastOp' = [op |-> "callerWritesReturned"]
  /\ UNCHANGED <<config, observations, screenshots, tasks, metrics, currentTaskStart, now,
                 calls, dirs, disk, returned, startedAt, writeLog>>

\* a write through a slot of the returned value
\* (snapshot[i].description = ...; snapshot.consoleErrors.push(...);
\*  snapshot.goals.push(...))
callerWritesNested ==
  /\ Invoke
  /\ returned.kind # "none"
  /\ \/ /\ returned.kind = "observations"
        /\ \E i \in 1..Len(heap[returned.ref]) :
             heap' = [heap EXCEPT ![heap[returned.ref][i]].description = Tampered]
     \/ /\ returned.kind = "tasks"
        /\ \E i \in 1..Len(heap[returned.ref]) :
             heap' = [heap EXCEPT ![heap[returned.ref][i]].notes = Tampered]
     \/ /\ returned.kind = "metrics"
        /\ heap' = [heap EXCEPT ![heap[returned.ref].consoleErrors] = Append(@, Tampered)]
     \/ /\ returned.kind = "persona"
        /\ \E f \in {"goals", "behaviors"} :
             heap' = [heap EXCEPT ![heap[returned.ref][f]] = Append(@, Tampered)]
  /\ lastOp' = [op |-> "callerWritesNested"]
  /\ UNCHANGED <<config, observations, screenshots, tasks, metrics, currentTaskStart, now,
                 calls, dirs, disk, returned, startedAt, writeLog>>

(***************************************************************************)
(* Strings and paths.  A string is a sequence of characters and tokens.    *)
(***************************************************************************)
\* name.replace(/[^a-zA-Z0-9-_]/g, '-')
SanitizeName(name) ==
  [i \in 1..Len(name) |-> IF name[i] \in SafeNameChars THEN name[i] ELSE "-"]

\* path.join(a, b)
PathJoin(a, b) == a \o <<"/">> \o b

\* `${safeName}-${Date.now()}.${format}`
ScreenshotFilename(name, t, format) == SanitizeName(name) \o <<"-", ToString(t), ".", format>>

Whitespace == {" "}

ToLowerCase(str) ==
  [i \in 1..Len(str) |-> CASE str[i] = "A" -> "a" [] str[i] = "B" -> "b" [] OTHER -> str[i]]

RECURSIVE SkipWhitespace(_)
SkipWhitespace(str) ==
  IF str # <<>> /\ Head(str) \in Whitespace THEN SkipWhitespace(Tail(str)) ELSE str

\* a variant of ReplaceWhitespaceRuns: str.replace(/\s/g, '-')
ReplaceEachWhitespace(str) ==
  [i \in 1..Len(str) |-> IF str[i] \in Whitespace THEN "-" ELSE str[i]]

\* str.replace(/\s+/g, '-')
RECURSIVE ReplaceWhitespaceRuns(_)
ReplaceWhitespaceRuns(str) ==
  IF str = <<>> THEN <<>>
  ELSE IF Head(str) \in Whitespace
    THEN <<"-">> \o ReplaceWhitespaceRuns(SkipWhitespace(Tail(str)))
    ELSE <<Head(str)>> \o ReplaceWhitespaceRuns(Tail(str))

\* path.join(outputDir, `${safeName}-observations.json`)
ArtifactPath(cfg) ==
  PathJoin(<<cfg.outputDir>>,
           ReplaceWhitespaceRuns(ToLowerCase(cfg.persona.name)) \o <<"-observations.json">>)

\* `${name} - ${role}`
PersonaIdentity(p) == p.name \o <<" - ", p.role>>

(***************************************************************************)
(* JSON.stringify: follows every address and leaves out undefined fields.  *)
(***************************************************************************)
StringifyMetrics(h, m) ==
  LET base == [startTime |-> m.startTime, pagesVisited |-> m.pagesVisited,
               clickCount |-> m.clickCount, searchCount |-> m.searchCount,
               backNavCount |-> m.backNavCount, consoleErrors |-> h[m.consoleErrors]]
      withEnd == IF m.endTime = Undefined THEN base
                 ELSE base @@ [endTime |-> m.endTime[1]]
  IN IF m.screenshotsCaptured = Undefined THEN withEnd
     ELSE withEnd @@ [screenshotsCaptured |-> m.screenshotsCaptured[1]]

\* a variant of Stringify: the screenshots are left out of the artifact
StringifyWithoutScreenshots(h, results) ==
  [persona |-> results.persona, background |-> results.background,
   goals |-> h[results.goals], behaviors |-> h[results.behaviors],
   session |-> StringifyMetrics(h, h[results.session]),
   tasks |-> Deref(h, results.tasks),
   observations |-> Deref(h, results.observations),
   screenshots |-> <<>>]

Stringify(h, results) ==
  [persona |-> results.persona, background |-> results.background,
   goals |-> h[results.goals], behaviors |-> h[results.behaviors],
   session |-> StringifyMetrics(h, h[results.session]),
   tasks |-> Deref(h, results.tasks),
   observations |-> Deref(h, results.observations),
   screenshots |-> Deref(h, results.screenshots)]

(***************************************************************************)
(* The external page and the file system.                                  *)
(***************************************************************************)
\* page.url()
PageUrl == "https://example.test/"

\* page.title()
PageTitle == "Home"

ImageFile(bytes, complete) == [kind |-> "image", complete |-> complete, content |-> bytes]

JsonFile(value, complete) == [kind |-> "json", complete |-> complete, content |-> value]

\* the file system after fs.writeFile(path, file) ran to completion
WriteFile(path, file) == [q \in DOMAIN disk \cup {path} |-> IF q = path THEN file ELSE disk[q]]

\* the asynchronous calls other than id
Others(id) == [i \in DOMAIN calls \ {id} |-> calls[i]]

(***************************************************************************)
(* async screenshot(page, name, context)                                   *)
(***************************************************************************)
\* up to the first await: the timestamp and the path are fixed, mkdir is started
screenshot(name, context) ==
  /\ Invoke
  /\ LET screenshotDir == PathJoin(<<config.outputDir>>, <<"screenshots">>)
         filename == ScreenshotFilename(name, now, config.screenshotFormat)
     IN calls' = calls @@ (nOps + 1 :>
          [method |-> "screenshot", pc |-> "mkdir", name |-> name, context |-> context,
           timestamp |-> ToISOString(now), screenshotDir |-> screenshotDir,
           filepath |-> PathJoin(screenshotDir, filename), buffer |-> Undefined,
           url |-> Undefined, entry |-> CollectorState])
  /\ lastOp' = [op |-> "screenshot", outcome |-> "pending"]
  /\ UNCHANGED <<collector, config, now, dirs, disk, returned, startedAt, writeLog>>

\* fs.mkdir(screenshotDir, { recursive: true }) resolved; page.screenshot() is started
screenshotMkdir(id) ==
  /\ calls[id].method = "screenshot" /\ calls[id].pc = "mkdir"
  /\ dirs' = dirs \cup {<<config.outputDir>>, calls[id].screenshotDir}
  /\ calls' = [calls EXCEPT ![id].pc = "capture"]
  /\ lastOp' = [op |-> "screenshot", outcome |-> "pending"]
  /\ UNCHANGED <<collector, config, now, disk, returned, nOps, startedAt, writeLog>>

\* page.screenshot() resolved with a buffer; fs.writeFile(filepath, buffer) is started
screenshotCapture(id, buf) ==
  /\ calls[id].method = "screenshot" /\ calls[id].pc = "capture"
  /\ calls' = [calls EXCEPT ![id].pc = "write", ![id].buffer = Some(buf)]
  /\ lastOp' = [op |-> "screenshot", outcome |-> "pending"]
  /\ UNCHANGED <<collector, config, now, dirs, disk, returned, nOps, startedAt, writeLog>>

\* a variant of screenshotWrite: fs.writeFile is started but not awaited
screenshotWriteNotAwaited(id) ==
  /\ calls[id].method = "screenshot" /\ calls[id].pc = "write"
  /\ calls' = [calls EXCEPT ![id].pc = "title", ![id].url = Some(PageUrl)]
  /\ lastOp' = [op |-> "screenshot", outcome |-> "pending"]
  /\ UNCHANGED <<collector, config, now, dirs, disk, returned, nOps, startedAt, writeLog>>

\* a variant of screenshotWrite: the record is pushed as soon as the file is
\* written, before page.title() is awaited
screenshotWritePushesEarly(id) ==
  /\ calls[id].method = "screenshot" /\ calls[id].pc = "write"
  /\ disk' = WriteFile(calls[id].filepath, ImageFile(calls[id].buffer[1], TRUE))
  /\ writeLog' = writeLog \cup {[path |-> calls[id].filepath, bytes |-> calls[id].buffer[1]]}
  /\ calls' = [calls EXCEPT ![id].pc = "title", ![id].url = Some(PageUrl)]
  /\ LET a == Fresh("screenshot") IN
       heap' = [heap EXCEPT ![screenshots] = Append(@, a)]
               @@ (a :> [name |-> calls[id].name, context |-> calls[id].context,
                         url |-> PageUrl, filepath |-> calls[id].filepath,
                         timestamp |-> calls[id].timestamp])
  /\ lastOp' = [op |-> "screenshot", outcome |-> "pending"]
  /\ UNCHANGED <<config, observations, screenshots, tasks, metrics, currentTaskStart, now,
                 dirs, returned, nOps, startedAt>>

\* fs.writeFile resolved; page.url() is read and page.title() is started
screenshotWrite(id) ==
  /\ calls[id].method = "screenshot" /\ calls[id].pc = "write"
  /\ disk' = WriteFile(calls[id].filepath, ImageFile(calls[id].buffer[1], TRUE))
  /\ writeLog' = writeLog \cup {[path |-> calls[id].filepath, bytes |-> calls[id].buffer[1]]}
  /\ calls' = [calls EXCEPT ![id].pc = "title", ![id].url = Some(PageUrl)]
  /\ lastOp' = [op |-> "screenshot", outcome |-> "pending"]
  /\ UNCHANGED <<collector, config, now, dirs, returned, nOps, startedAt>>

\* a variant of screenshotTitle: the record is appended to the screenshots the
\* call saw when it was invoked (this.screenshots = [...seen, screenshot])
screenshotTitleAppendsToSeen(id) ==
  /\ calls[id].method = "screenshot" /\ calls[id].pc = "title"
  /\ LET a == Fresh("screenshot")
         shot == [name |-> calls[id].name, context |-> calls[id].context,
                  url |-> calls[id].url[1], pageTitle |-> PageTitle,
                  filepath |-> calls[id].filepath,
                  base64 |-> IF config.includeBase64 THEN ToBase64(calls[id].buffer[1])
                             ELSE EmptyString,
                  timestamp |-> calls[id].timestamp]
     IN /\ heap' = [heap EXCEPT ![screenshots] =
                       Append(SubSeq(@, 1, Len(calls[id].entry.screenshots)), a)]
                   @@ (a :> shot)
        /\ lastOp' = [op |-> "screenshot", outcome |-> "resolved", ret |-> shot,
                      entry |-> calls[id].entry]
  /\ calls' = Others(id)
  /\ UNCHANGED <<config, observations, screenshots, tasks, metrics, currentTaskStart, now,
                 dirs, disk, returned, nOps, startedAt, writeLog>>

\* page.title() resolved: the record is built, pushed and returned
screenshotTitle(id) ==
  /\ calls[id].method = "screenshot" /\ calls[id].pc = "title"
  /\ LET a == Fresh("screenshot")
         shot == [name |-> calls[id].name, context |-> calls[id].context,
                  url |-> calls[id].url[1], pageTitle |-> PageTitle,
                  filepath |-> calls[id].filepath,
                  base64 |-> IF config.includeBase64 THEN ToBase64(calls[id].buffer[1])
                             ELSE EmptyString,
                  timestamp |-> calls[id].timestamp]
     IN /\ heap' = [heap EXCEPT ![screenshots] = Append(@, a)] @@ (a :> shot)
        /\ lastOp' = [op |-> "screenshot", outcome |-> "resolved", ret |-> shot,
                      entry |-> calls[id].entry]
  /\ calls' = Others(id)
  /\ UNCHANGED <<config, observations, screenshots, tasks, metrics, currentTaskStart, now,
                 dirs, disk, returned, nOps, startedAt, writeLog>>

\* the awaited step (mkdir, page.screenshot, writeFile or page.title) rejected:
\* the exception leaves screenshot(); a failed write may leave part of the file
screenshotRejects(id, partial) ==
  /\ calls[id].method = "screenshot"
  /\ partial => calls[id].pc = "write"
  /\ disk' = IF partial
               THEN WriteFile(calls[id].filepath, ImageFile(calls[id].buffer[1], FALSE))
               ELSE disk
  /\ calls' = Others(id)
  /\ lastOp' = [op |-> "screenshot", outcome |-> "rejected", at |-> calls[id].pc,
                entry |-> calls[id].entry]
  /\ UNCHANGED <<collector, config, now, dirs, returned, nOps, startedAt, writeLog>>

(***************************************************************************)
(* async save()                                                            *)
(***************************************************************************)
\* a variant of save: the page counter is cleared when the metrics are stamped
saveClearsPagesVisited ==
  /\ Invoke
  /\ heap' = [heap EXCEPT ![metrics].endTime = Some(ToISOString(now)),
                          ![metrics].screenshotsCaptured = Some(Len(heap[screenshots])),
                          ![metrics].pagesVisited = 0]
  /\ calls' = calls @@ (nOps + 1 :>
       [method |-> "save", pc |-> "mkdir",
        results |-> [persona |-> PersonaIdentity(config.persona),
                     background |-> config.persona.background,
                     goals |-> config.persona.goals,
                     behaviors |-> config.persona.behaviors,
                     session |-> metrics, tasks |-> tasks,
                     observations |-> observations, screenshots |-> screenshots],
        filepath |-> ArtifactPath(config), text |-> Undefined,
        entry |-> CollectorState])
  /\ lastOp' = [op |-> "save", outcome |-> "pending"]
  /\ UNCHANGED <<config, observations, screenshots, tasks, metrics, currentTaskStart, now,
                 dirs, disk, returned, startedAt, writeLog>>

\* up to the first await: the metrics are stamped, the results object is built
\* (it holds the addresses of the collector's arrays), mkdir is started
save ==
  /\ Invoke
  /\ heap' = [heap EXCEPT ![metrics].endTime = Some(ToISOString(now)),
                          ![metrics].screenshotsCaptured = Some(Len(heap[screenshots]))]
  /\ calls' = calls @@ (nOps + 1 :>
       [method |-> "save", pc |-> "mkdir",
        results |-> [persona |-> PersonaIdentity(config.persona),
                     background |-> config.persona.background,
                     goals |-> config.persona.goals,
                     behaviors |-> config.persona.behaviors,
                     session |-> metrics, tasks |-> tasks,
                     observations |-> observations, screenshots |-> screenshots],
        filepath |-> ArtifactPath(config), text |-> Undefined,
        entry |-> CollectorState])
  /\ lastOp' = [op |-> "save", outcome |-> "pending"]
  /\ UNCHANGED <<config, observations, screenshots, tasks, metrics, currentTaskStart, now,
                 dirs, disk, returned, startedAt, writeLog>>

\* fs.mkdir(outputDir) resolved; JSON.stringify(results) is evaluated and
\* fs.writeFile(filepath, text) is started
saveMkdir(id) ==
  /\ calls[id].method = "save" /\ calls[id].pc = "mkdir"
  /\ dirs' = dirs \cup {<<config.outputDir>>}
  /\ calls' = [calls EXCEPT ![id].pc = "write",
                            ![id].text = Some(Stringify(heap, calls[id].results))]
  /\ lastOp' = [op |-> "save", outcome |-> "pending"]
  /\ UNCHANGED <<collector, config, now, disk, returned, nOps, startedAt, writeLog>>

\* fs.writeFile resolved: save() returns the path
saveWrite(id) ==
  /\ calls[id].method = "save" /\ calls[id].pc = "write"
  /\ disk' = WriteFile(calls[id].filepath, JsonFile(calls[id].text[1], TRUE))
  /\ calls' = Others(id)
  /\ lastOp' = [op |-> "save", outcome |-> "resolved", ret |-> calls[id].filepath,
                entry |-> calls[id].entry,
                overwrote |-> /\ calls[id].filepath \in DOMAIN disk
                              /\ disk[calls[id].filepath].complete]
  /\ UNCHANGED <<collector, config, now, dirs, returned, nOps, startedAt, writeLog>>

\* mkdir or writeFile rejected: the exception leaves save()
saveRejects(id, partial) ==
  /\ calls[id].method = "save"
  /\ partial => calls[id].pc = "write"
  /\ disk' = IF partial
               THEN WriteFile(calls[id].filepath, JsonFile(calls[id].text[1], FALSE))
               ELSE disk
  /\ calls' = Others(id)
  /\ lastOp' = [op |-> "save", outcome |-> "rejected", at |-> calls[id].pc,
                entry |-> calls[id].entry]
  /\ UNCHANGED <<collector, config, now, dirs, returned, nOps, startedAt, writeLog>>

(***************************************************************************)
(* The collector driven by one sequential script: every asynchronous call  *)
(* is awaited before the next operation is invoked.                        *)
(***************************************************************************)
Idle == DOMAIN calls = {}

Next ==
  \/ Idle /\ UNCHANGED library /\ Tick
  \/ Idle /\ UNCHANGED library /\ \E in \in ObserveInputs :
       observe(in.type, "Clear headline", "Homepage hero", in.options)
  \/ Idle /\ UNCHANGED library /\ startTask
  \/ Idle /\ UNCHANGED library /\ \E success \in BOOLEAN : recordTask("find cta", success, "found it")
  \/ Idle /\ UNCHANGED library /\ trackPageLoad
  \/ Idle /\ UNCHANGED library /\ trackClick
  \/ Idle /\ UNCHANGED library /\ trackSearch
  \/ Idle /\ UNCHANGED library /\ trackBackNav
  \/ Idle /\ UNCHANGED library /\ \E message \in ConsoleMessages : addConsoleError(message)
  \/ Idle /\ UNCHANGED library /\ reset
  \/ Idle /\ UNCHANGED library /\ getObservations
  \/ Idle /\ UNCHANGED library /\ getMetrics
  \/ Idle /\ UNCHANGED library /\ getTasks
  \/ Idle /\ UNCHANGED library /\ getPersona
  \/ Idle /\ UNCHANGED library /\ callerWritesReturned
  \/ Idle /\ UNCHANGED library /\ callerWritesNested
  \/ Idle /\ UNCHANGED library /\ \E name \in ScreenshotNames : screenshot(name, "First view of the site")
  \/ Idle /\ UNCHANGED library /\ save
  \/ UNCHANGED library /\ \E id \in DOMAIN calls :
       \/ screenshotMkdir(id)
       \/ \E buf \in Buffers : screenshotCapture(id, buf)
       \/ screenshotWrite(id)
       \/ screenshotTitle(id)
       \/ \E partial \in BOOLEAN : screenshotRejects(id, partial)
       \/ saveMkdir(id)
       \/ saveWrite(id)
       \/ \E partial \in BOOLEAN : saveRejects(id, partial)

Spec == Init /\ [][Next]_vars

(***************************************************************************)
(* The collector driven by a script that does not await its captures:      *)
(* screenshot() is invoked while earlier calls are suspended at an await,  *)
(* and the suspended calls resume in any order.                            *)
(***************************************************************************)
\* the number of captures the script starts
MaxOverlap == 2

\* the captures the script starts, and the bytes the page returns
OverlapCaptures ==
  {[name |-> <<"a", " ">>, context |-> "First view of the site"],
   [name |-> <<"a", "-">>, context |-> "After scrolling"]}

OverlapBuffers == {"img1", "img2"}

NextOverlap ==
  \/ UNCHANGED library /\ Tick
  \/ UNCHANGED library /\ nOps < MaxOverlap /\ \E capture \in OverlapCaptures :
       screenshot(capture.name, capture.context)
  \/ UNCHANGED library /\ \E id \in DOMAIN calls :
       \/ screenshotMkdir(id)
       \/ \E buf \in OverlapBuffers : screenshotCapture(id, buf)
       \/ screenshotWrite(id)
       \/ screenshotTitle(id)
       \/ \E partial \in BOOLEAN : screenshotRejects(id, partial)

SpecOverlap == Init /\ [][NextOverlap]_vars

(***************************************************************************)
(* definePersona() and the persona templates (core/helpers.ts).  A string  *)
(* is the sequence of its characters; a field a caller may leave undefined *)
(* is Undefined or Some(value).                                            *)
(***************************************************************************)
\* the longest text, and the longest list, a caller passes
MaxText == 2

MaxList == 2

RECURSIVE TextsOver(_, _)
TextsOver(chars, n) ==
  IF n = 0 THEN {<<>>}
  ELSE LET shorter == TextsOver(chars, n - 1) IN
         shorter \cup {Append(s, c) : s \in shorter, c \in chars}

RECURSIVE ListsOver(_, _)
ListsOver(elements, n) ==
  IF n = 0 THEN {<<>>}
  ELSE LET shorter == ListsOver(elements, n - 1) IN
         shorter \cup {Append(s, e) : s \in shorter, e \in elements}

Optional(S) == {Undefined} \cup {Some(v) : v \in S}

\* the arguments definePersona is called with
PersonaConfigs ==
  [name : Optional(TextsOver({" ", "x"}, MaxText)),
   role : {Undefined, Some(<<" ">>), Some(<<"r", " ">>)},
   background : {Undefined, Some(<<" ", " ">>), Some(<<" ", "k">>)},
   goals : Optional(ListsOver({<<" ", "g">>, <<" ">>}, MaxList)),
   behaviors : {Undefined, Some(<<>>), Some(<< <<"b", " ", "b", " ">> >>)}]

\* str.trimEnd()
RECURSIVE TrimEnd(_)
TrimEnd(str) ==
  IF str # <<>> /\ str[Len(str)] \in Whitespace
    THEN TrimEnd(SubSeq(str, 1, Len(str) - 1))
    ELSE str

\* str.trim()
Trim(str) == TrimEnd(SkipWhitespace(str))

\* !field?.trim(): undefined, or nothing left after trimming
BlankText(field) == field = Undefined \/ Trim(field[1]) = <<>>

\* !field?.length: undefined, or of length 0
NoElements(field) == field = Undefined \/ Len(field[1]) = 0

Throws(message) == [kind |-> "threw", error |-> [name |-> "Error", message |-> message]]

Returns(value) == [kind |-> "returned", value |-> value]

\* a variant of definePersona: goals and behaviors are checked with !config.goals
definePersonaAllowsEmptyLists(cfg) ==
  IF BlankText(cfg.name) THEN Throws("Persona must have a name")
  ELSE IF BlankText(cfg.role) THEN Throws("Persona must have a role")
  ELSE IF BlankText(cfg.background) THEN Throws("Persona must have a background")
  ELSE IF cfg.goals = Undefined THEN Throws("Persona must have at least one goal")
  ELSE IF cfg.behaviors = Undefined
    THEN Throws("Persona must have at least one behavior")
  ELSE Returns([name |-> Trim(cfg.name[1]),
                role |-> Trim(cfg.role[1]),
                background |-> Trim(cfg.background[1]),
                goals |-> [i \in 1..Len(cfg.goals[1]) |-> Trim(cfg.goals[1][i])],
                behaviors |-> [i \in 1..Len(cfg.behaviors[1]) |->
                                 Trim(cfg.behaviors[1][i])]])

definePersona(cfg) ==
  IF BlankText(cfg.name) THEN Throws("Persona must have a name")
  ELSE IF BlankText(cfg.role) THEN Throws("Persona must have a role")
  ELSE IF BlankText(cfg.background) THEN Throws("Persona must have a background")
  ELSE IF NoElements(cfg.goals) THEN Throws("Persona must have at least one goal")
  ELSE IF NoElements(cfg.behaviors)
    THEN Throws("Persona must have at least one behavior")
  ELSE Returns([name |-> Trim(cfg.name[1]),
                role |-> Trim(cfg.role[1]),
                background |-> Trim(cfg.background[1]),
                goals |-> [i \in 1..Len(cfg.goals[1]) |-> Trim(cfg.goals[1][i])],
                behaviors |-> [i \in 1..Len(cfg.behaviors[1]) |->
                                 Trim(cfg.behaviors[1][i])]])

\* a string literal of the source, which neither starts nor ends with whitespace,
\* kept in one piece
Literal(text) == <<text>>

firstTimeVisitorDefaults ==
  [name |-> Literal("Alex"),
   role |-> Literal("First-Time Visitor"),
   background |->
     Literal("New to the site with no prior context. Found this via search or social media."),
   goals |->
        <<Literal("Understand what this site/product does within 10 seconds"),
          Literal("Find how to get started or sign up"),
          Literal("Locate help, documentation, or support")>>,
   behaviors |->
        <<Literal("Skims headings before reading full content"),
          Literal("Looks for familiar UI patterns"),
          Literal("Quick to leave if confused or overwhelmed"),
          Literal("Scrolls to get a sense of page length")>>]

powerUserDefaults ==
  [name |-> Literal("Sam"),
   role |-> Literal("Power User"),
   background |->
     Literal("Has used similar tools extensively. Values efficiency and keyboard shortcuts."),
   goals |->
        <<Literal("Complete tasks as efficiently as possible"),
          Literal("Use keyboard navigation when available"),
          Literal("Access advanced features without hunting"),
          Literal("Customize the experience to their workflow")>>,
   behaviors |->
        <<Literal("Uses search heavily instead of browsing"),
          Literal("Memorizes and uses keyboard shortcuts"),
          Literal("Expects instant feedback on actions"),
          Literal("Gets frustrated by unnecessary confirmations")>>]

accessibilityAuditorDefaults ==
  [name |-> Literal("Jordan"),
   role |-> Literal("Accessibility Auditor"),
   background |->
     Literal("Testing for WCAG 2.1 AA compliance. Uses keyboard navigation and screen readers."),
   goals |->
        <<Literal("Navigate the entire site using only keyboard"),
          Literal("Verify screen reader announces content correctly"),
          Literal("Check color contrast meets WCAG standards"),
          Literal("Ensure all interactive elements have focus states")>>,
   behaviors |->
        <<Literal("Uses Tab key exclusively for navigation"),
          Literal("Tests at 200% zoom level"),
          Literal("Checks heading hierarchy (H1, H2, H3)"),
          Literal("Verifies all images have meaningful alt text"),
          Literal("Tests with browser extensions like axe or WAVE")>>]

designReviewerDefaults ==
  [name |-> Literal("Casey"),
   role |-> Literal("UI/UX Designer"),
   background |->
     Literal("Senior designer with an eye for detail. Reviews interfaces for consistency and polish."),
   goals |->
        <<Literal("Verify visual hierarchy guides users correctly"),
          Literal("Check spacing and alignment consistency"),
          Literal("Ensure responsive design works at all breakpoints"),
          Literal("Identify any jarring transitions or animations")>>,
   behaviors |->
        <<Literal("Resizes browser to test responsive breakpoints"),
          Literal("Inspects spacing with browser dev tools"),
          Literal("Notices subtle color and typography inconsistencies"),
          Literal("Tests hover states and micro-interactions")>>]

skepticalEvaluatorDefaults ==
  [name |-> Literal("Morgan"),
   role |-> Literal("Skeptical Evaluator"),
   background |->
     Literal("Has been burned by overpromising products before. Needs to see proof before committing."),
   goals |->
        <<Literal("Find evidence that this actually works"),
          Literal("Understand pricing before investing time"),
          Literal("Read real user testimonials or case studies"),
          Literal("Find limitations or downsides (red flags if hidden)")>>,
   behaviors |->
        <<Literal("Scrolls past marketing to find substance"),
          Literal("Looks for pricing page early"),
          Literal("Searches for reviews and comparisons externally"),
          Literal("Tests claims by trying the product immediately")>>]

supportSeekerDefaults ==
  [name |-> Literal("Riley"),
   role |-> Literal("Support Seeker"),
   background |->
     Literal("Encountered a problem and needs help. May be frustrated or confused."),
   goals |->
        <<Literal("Find contact information or support chat quickly"),
          Literal("Search documentation for their specific issue"),
          Literal("Understand error messages and how to resolve them"),
          Literal("Get a response time estimate for support")>>,
   behaviors |->
        <<Literal("Looks for help/support links in header or footer"),
          Literal("Uses search with error message text"),
          Literal("Prefers self-service over waiting for support"),
          Literal("Gets more frustrated if help is hard to find")>>]

mobileUserDefaults ==
  [name |-> Literal("Taylor"),
   role |-> Literal("Mobile-First User"),
   background |->
     Literal("Primarily uses phone for everything. Limited patience for pinch-zooming or horizontal scrolling."),
   goals |->
        <<Literal("Complete core tasks on a phone screen"),
          Literal("Tap targets should be large enough"),
          Literal("Content should be readable without zooming"),
          Literal("Forms should work with mobile keyboards")>>,
   behaviors |->
        <<Literal("Holds phone one-handed, uses thumb"),
          Literal("Expects tap targets to be 44px minimum"),
          Literal("Abandons if horizontal scrolling required"),
          Literal("Uses autofill for forms whenever possible")>>]

Templates ==
  {"firstTimeVisitor", "powerUser", "accessibilityAuditor", "designReviewer",
   "skepticalEvaluator", "supportSeeker", "mobileUser"}

TemplateDefaults(template) ==
  CASE template = "firstTimeVisitor" -> firstTimeVisitorDefaults
    [] template = "powerUser" -> powerUserDefaults
    [] template = "accessibilityAuditor" -> accessibilityAuditorDefaults
    [] template = "designReviewer" -> designReviewerDefaults
    [] template = "skepticalEvaluator" -> skepticalEvaluatorDefaults
    [] template = "supportSeeker" -> supportSeekerDefaults
    [] template = "mobileUser" -> mobileUserDefaults

\* the customization a template is called with: each key is absent (Undefined)
\* or present (Some) with a value that may itself be undefined
Customizations ==
  [name : {Undefined, Some(Undefined), Some(Some(<<" ", "J", " ">>)), Some(Some(<<" ">>))},
   role : {Undefined, Some(Some(<<"R">>))},
   background : {Undefined, Some(Some(<<" ", " ">>))},
   goals : {Undefined} \cup {Some(Some(l)) : l \in ListsOver({<<" ", "g">>, <<" ">>}, MaxList)},
   behaviors : {Undefined, Some(Some(<<>>)), Some(Some(<< <<"b", " ">> >>))}]

PersonaKeys == {"name", "role", "background", "goals", "behaviors"}

\* a variant of SpreadOver: { ...customization, name: 'Alex', ... }
SpreadUnder(defaults, customization) ==
  [k \in PersonaKeys |-> Some(defaults[k])]

\* { name: 'Alex', ..., ...customization }: a key of the customization wins
\* whenever it is present, whatever its value
SpreadOver(defaults, customization) ==
  [k \in PersonaKeys |->
     IF customization[k] = Undefined THEN Some(defaults[k]) ELSE customization[k][1]]

\* personaTemplates[template](customization)
personaTemplates(template, customization) ==
  definePersona(SpreadOver(TemplateDefaults(template), customization))

\* no collector is constructed
NoSession ==
  /\ heap = <<>> /\ config = <<>> /\ observations = <<>> /\ screenshots = <<>>
  /\ tasks = <<>> /\ metrics = <<>> /\ currentTaskStart = Undefined /\ now = 0
  /\ calls = <<>> /\ dirs = {} /\ disk = <<>> /\ returned = [kind |-> "none"]
  /\ lastOp = [op |-> "none"] /\ nOps = 0 /\ startedAt = Undefined /\ writeLog = {}

\* a caller calls definePersona(config)
callDefinePersona(cfg) ==
  /\ defineCall.op = "none"
  /\ defineCall' = [op |-> "definePersona", config |-> cfg, outcome |-> definePersona(cfg)]
  /\ UNCHANGED <<session, site, report, analyze>>

\* a caller calls personaTemplates[template](customization)
callTemplate(template, customization) ==
  /\ defineCall.op = "none"
  /\ defineCall' = [op |-> "template", template |-> template,
                    customization |-> customization,
                    outcome |-> personaTemplates(template, customization)]
  /\ UNCHANGED <<session, site, report, analyze>>

InitPersona ==
  /\ NoSession
  /\ defineCall = [op |-> "none"]
  /\ initCommand = [op |-> "none"]
  /\ nav = [op |-> "none"]
  /\ report = [op |-> "none"]
  /\ analyze = [op |-> "none"]

NextPersona ==
  \/ \E cfg \in PersonaConfigs : callDefinePersona(cfg)
  \/ \E template \in Templates, customization \in Customizations :
       callTemplate(template, customization)

SpecPersona == InitPersona /\ [][NextPersona]_vars

(***************************************************************************)
(* The report renderer (cli/commands/report.ts).  A string is the sequence *)
(* of its characters.  The page generateHtml() returns is kept as the      *)
(* values it interpolates into its fixed template, slot by slot.           *)
(***************************************************************************)
\* the largest number of tasks in an artifact whose tasks are counted
MaxTasks == 40

\* text.replace(/ch/g, by)
RECURSIVE ReplaceAll(_, _, _)
ReplaceAll(text, ch, by) ==
  IF text = <<>> THEN <<>>
  ELSE (IF Head(text) = ch THEN by ELSE <<Head(text)>>) \o ReplaceAll(Tail(text), ch, by)

EntityAmp == <<"&", "a", "m", "p", ";">>

EntityLt == <<"&", "l", "t", ";">>

EntityGt == <<"&", "g", "t", ";">>

EntityQuot == <<"&", "q", "u", "o", "t", ";">>

EntityApos == <<"&", "#", "0", "3", "9", ";">>

\* a variant of escapeHtml: the ampersand is replaced last
escapeHtmlAmpersandLast(text) ==
  ReplaceAll(
    ReplaceAll(
      ReplaceAll(
        ReplaceAll(
          ReplaceAll(text, "<", EntityLt),
          ">", EntityGt),
        "\"", EntityQuot),
      "'", EntityApos),
    "&", EntityAmp)

escapeHtml(text) ==
  ReplaceAll(
    ReplaceAll(
      ReplaceAll(
        ReplaceAll(
          ReplaceAll(text, "&", EntityAmp),
          "<", EntityLt),
        ">", EntityGt),
      "\"", EntityQuot),
    "'", EntityApos)

\* An IEEE 754 double x > 0 is kept as [limbs |-> <<lead, d1, d2, d3, d4>>, k]:
\* x = (lead * 2^52 + d1 * 2^39 + d2 * 2^26 + d3 * 2^13 + d4) * 2^(-52 - k), the
\* four limbs holding 13 bits each.  A double has lead = 1 (53 significant bits).
LimbBase == 8192

RECURSIVE Carry(_, _)
Carry(limbs, i) ==
  IF i > 1 /\ limbs[i] >= LimbBase
    THEN Carry([limbs EXCEPT ![i] = @ - LimbBase, ![i - 1] = @ + 1], i - 1)
    ELSE limbs

AddToLowest(limbs, amount) == Carry([limbs EXCEPT ![5] = @ + amount], 5)

RECURSIVE BitLength(_)
BitLength(n) == IF n = 0 THEN 0 ELSE 1 + BitLength(n \div 2)

RECURSIVE Exponent(_, _, _)
Exponent(s, t, k) == IF s * 2^k >= t THEN k ELSE Exponent(s, t, k + 1)

\* s / t for integers 0 < s <= t: the quotient rounded to the nearest double,
\* ties to even
DoubleDivide(s, t) ==
  LET k == Exponent(s, t, 0)
      r0 == s * 2^k - t
      d1 == (r0 * LimbBase) \div t
      r1 == (r0 * LimbBase) % t
      d2 == (r1 * LimbBase) \div t
      r2 == (r1 * LimbBase) % t
      d3 == (r2 * LimbBase) \div t
      r3 == (r2 * LimbBase) % t
      d4 == (r3 * LimbBase) \div t
      r4 == (r3 * LimbBase) % t
      up == 2 * r4 > t \/ (2 * r4 = t /\ d4 % 2 = 1)
      m == IF up THEN AddToLowest(<<1, d1, d2, d3, d4>>, 1) ELSE <<1, d1, d2, d3, d4>>
  IN IF m[1] = 2 THEN [limbs |-> <<1, 0, 0, 0, 0>>, k |-> k - 1]
     ELSE [limbs |-> m, k |-> k]

\* the exact product rounded to 53 significant bits, ties to even
RoundTo53(limbs) ==
  LET unit == 2^(BitLength(limbs[1]) - 1)
      low == limbs[5] % unit
      lsb == (limbs[5] \div unit) % 2
      up == 2 * low > unit \/ (2 * low = unit /\ lsb = 1)
      cut == [limbs EXCEPT ![5] = @ - low]
  IN IF up THEN AddToLowest(cut, unit) ELSE cut

\* x * 100 for a double x
DoubleTimes100(x) ==
  LET v4 == x.limbs[5] * 100
      v3 == x.limbs[4] * 100 + v4 \div LimbBase
      v2 == x.limbs[3] * 100 + v3 \div LimbBase
      v1 == x.limbs[2] * 100 + v2 \div LimbBase
      v0 == x.limbs[1] * 100 + v1 \div LimbBase
  IN [limbs |-> RoundTo53(<<v0, v1 % LimbBase, v2 % LimbBase, v3 % LimbBase,
                            v4 % LimbBase>>),
      k |-> x.k]

\* Math.round(x): the integer nearest to x, the larger one when x lies halfway
MathRound(x) ==
  LET whole == x.limbs[1] \div 2^x.k
      half == IF x.k = 0 THEN x.limbs[2] >= LimbBase \div 2
              ELSE x.limbs[1] % 2^x.k >= 2^(x.k - 1)
  IN IF half THEN whole + 1 ELSE whole

\* results.tasks.filter((t) => t.success).length
successfulTasks(results) ==
  Cardinality({i \in 1..Len(results.tasks) : results.tasks[i].success})

\* results.tasks.length
\*   ? Math.round((successfulTasks / results.tasks.length) * 100) : 0
\* (0 / n is the double 0, and 0 * 100 rounds to 0)
taskSuccessRate(results) ==
  IF Len(results.tasks) = 0 THEN 0
  ELSE IF successfulTasks(results) = 0 THEN 0
  ELSE MathRound(DoubleTimes100(DoubleDivide(successfulTasks(results), Len(results.tasks))))

\* results.observations.filter((o) => o.type === type).length
CountOfType(results, type) ==
  Cardinality({i \in 1..Len(results.observations) : results.observations[i].type = type})

\* (ms / 1000).toFixed(1), for the durations drawn (whole tenths of a second)
ToFixed1(ms) ==
  LET n == (ms + 50) \div 100 IN <<ToString(n \div 10), ".", ToString(n % 10)>>

\* new Date().toLocaleString()
ToLocaleString(t) == [locale |-> t]

\* a text is truthy unless it is undefined or empty
TruthyText(field) == field # Undefined /\ field[1] # <<>>

\* `${value}` of a value that may be undefined
Interpolate(field) == IF field = Undefined THEN <<"undefined">> ELSE field[1]

\* a variant of generateHtml: the title carries the generation time too
generateHtmlStampsTitle(results, t) ==
  [title |-> <<escapeHtml(results.persona), ToLocaleString(t)>>,
   heading |-> escapeHtml(results.persona),
   subtitle |-> escapeHtml(results.background),
   goals |-> [i \in 1..Len(results.goals) |-> escapeHtml(results.goals[i])],
   behaviors |-> [i \in 1..Len(results.behaviors) |-> escapeHtml(results.behaviors[i])],
   metrics |-> [pagesVisited |-> results.session.pagesVisited,
                clickCount |-> results.session.clickCount,
                backNavCount |-> results.session.backNavCount,
                consoleErrors |-> Len(results.session.consoleErrors),
                taskSuccessRate |-> taskSuccessRate(results)],
   counts |-> [type \in {"success", "note", "confusion", "frustration"} |->
                 CountOfType(results, type)],
   observations |->
     [i \in 1..Len(results.observations) |->
        LET obs == results.observations[i] IN
          [class |-> obs.type, badge |-> obs.type, label |-> obs.type,
           location |-> escapeHtml(obs.location),
           description |-> escapeHtml(obs.description),
           recommendation |-> IF TruthyText(obs.recommendation)
                                THEN Some(escapeHtml(obs.recommendation[1]))
                                ELSE Undefined]],
   tasks |->
     [i \in 1..Len(results.tasks) |->
        LET task == results.tasks[i] IN
          [status |-> IF task.success THEN "task-status--success"
                      ELSE "task-status--failure",
           name |-> escapeHtml(task.name),
           duration |-> ToFixed1(task.duration),
           notes |-> IF TruthyText(task.notes) THEN Some(escapeHtml(task.notes[1]))
                     ELSE Undefined]],
   screenshots |->
     [i \in 1..Len(results.screenshots) |->
        LET ss == results.screenshots[i] IN
          [src |-> Interpolate(ss.base64),
           alt |-> escapeHtml(ss.name),
           name |-> escapeHtml(ss.name),
           context |-> escapeHtml(ss.context),
           url |-> escapeHtml(ss.url)]],
   footer |-> ToLocaleString(t)]

\* generateHtml(results), run when the clock shows t
generateHtml(results, t) ==
  [title |-> escapeHtml(results.persona),
   heading |-> escapeHtml(results.persona),
   subtitle |-> escapeHtml(results.background),
   goals |-> [i \in 1..Len(results.goals) |-> escapeHtml(results.goals[i])],
   behaviors |-> [i \in 1..Len(results.behaviors) |-> escapeHtml(results.behaviors[i])],
   metrics |-> [pagesVisited |-> results.session.pagesVisited,
                clickCount |-> results.session.clickCount,
                backNavCount |-> results.session.backNavCount,
                consoleErrors |-> Len(results.session.consoleErrors),
                taskSuccessRate |-> taskSuccessRate(results)],
   counts |-> [type \in {"success", "note", "confusion", "frustration"} |->
                 CountOfType(results, type)],
   observations |->
     [i \in 1..Len(results.observations) |->
        LET obs == results.observations[i] IN
          [class |-> obs.type, badge |-> obs.type, label |-> obs.type,
           location |-> escapeHtml(obs.location),
           description |-> escapeHtml(obs.description),
           recommendation |-> IF TruthyText(obs.recommendation)
                                THEN Some(escapeHtml(obs.recommendation[1]))
                                ELSE Undefined]],
   tasks |->
     [i \in 1..Len(results.tasks) |->
        LET task == results.tasks[i] IN
          [status |-> IF task.success THEN "task-status--success"
                      ELSE "task-status--failure",
           name |-> escapeHtml(task.name),
           duration |-> ToFixed1(task.duration),
           notes |-> IF TruthyText(task.notes) THEN Some(escapeHtml(task.notes[1]))
                     ELSE Undefined]],
   screenshots |->
     [i \in 1..Len(results.screenshots) |->
        LET ss == results.screenshots[i] IN
          [src |-> Interpolate(ss.base64),
           alt |-> escapeHtml(ss.name),
           name |-> escapeHtml(ss.name),
           context |-> escapeHtml(ss.context),
           url |-> escapeHtml(ss.url)]],
   footer |-> ToLocaleString(t)]

\* the texts the artifacts carry: every character escapeHtml replaces, and a
\* text that reads like an entity already
MarkupText == <<"<", "b", ">", "&">>

QuotesText == <<"\"", "'">>

EntityText == <<"&", "l", "t", ";">>

ReportTexts == {MarkupText, QuotesText, EntityText}

ObservationChoices ==
  {[type |-> "success", description |-> MarkupText, location |-> QuotesText,
    timestamp |-> ToISOString(0), recommendation |-> Undefined],
   [type |-> "note", description |-> EntityText, location |-> MarkupText,
    timestamp |-> ToISOString(0), recommendation |-> Some(EntityText)],
   [type |-> "confusion", description |-> QuotesText, location |-> EntityText,
    timestamp |-> ToISOString(0), recommendation |-> Some(<<>>)],
   [type |-> "frustration", description |-> MarkupText, location |-> MarkupText,
    timestamp |-> ToISOString(0), recommendation |-> Some(QuotesText)]}

SucceededTask ==
  [name |-> MarkupText, success |-> TRUE, duration |-> 1200, notes |-> Some(QuotesText)]

FailedTask ==
  [name |-> EntityText, success |-> FALSE, duration |-> 0, notes |-> Undefined]

\* s tasks that succeeded followed by n - s that failed
TaskRun(s, n) == [i \in 1..n |-> IF i <= s THEN SucceededTask ELSE FailedTask]

ScreenshotLists ==
  {<<>>,
   << [name |-> QuotesText, filepath |-> <<"test-results", "/", "a.png">>,
       base64 |-> Some(<<"i", "m", "g">>), context |-> MarkupText,
       url |-> <<"h", ":", "/", "?", "a", "&", "b">>, timestamp |-> ToISOString(0)] >>,
   << [name |-> MarkupText, filepath |-> <<"test-results", "/", "b.png">>,
       base64 |-> Undefined, context |-> EntityText,
       url |-> <<"h", ":", "/">>, timestamp |-> ToISOString(0)] >>}

ArtifactWith(persona, observationList, taskList, screenshotList) ==
  [persona |-> persona, background |-> QuotesText,
   goals |-> <<MarkupText, EntityText>>, behaviors |-> <<QuotesText>>,
   session |-> [startTime |-> ToISOString(0), endTime |-> ToISOString(1),
                pagesVisited |-> 2, clickCount |-> 3, searchCount |-> 0,
                backNavCount |-> 1, consoleErrors |-> <<"e1">>,
                screenshotsCaptured |-> Len(screenshotList)],
   tasks |-> taskList, observations |-> observationList, screenshots |-> screenshotList]

\* the artifacts generateHtml is given: short ones of every shape, and ones
\* with every number of tasks up to MaxTasks of which any number succeeded
ReportArtifacts ==
  {ArtifactWith(p, o, TaskRun(1, 2), s) :
     p \in ReportTexts, o \in ListsOver(ObservationChoices, MaxList), s \in ScreenshotLists}
  \cup UNION {{ArtifactWith(MarkupText, <<>>, TaskRun(s, n), <<>>) : s \in 0..n} :
                n \in 1..MaxTasks}

\* the caller renders the artifact once more, at clock value t
render(t) ==
  /\ report.op = "loaded"
  /\ Len(report.pages) < 2
  /\ \A p \in 1..Len(report.pages) : report.pages[p].footer.locale <= t
  /\ report' = [report EXCEPT !.pages = Append(@, generateHtml(report.results, t))]
  /\ UNCHANGED <<session, site, defineCall, analyze>>

InitReport ==
  /\ NoSession
  /\ defineCall = [op |-> "none"]
  /\ initCommand = [op |-> "none"]
  /\ nav = [op |-> "none"]
  /\ analyze = [op |-> "none"]
  /\ \E results \in ReportArtifacts :
       report = [op |-> "loaded", results |-> results, pages |-> <<>>]

NextReport ==
  \/ \E t \in 0..MaxClock : render(t)

SpecReport == InitReport /\ [][NextReport]_vars

(***************************************************************************)
(* The analyze command (cli/commands/analyze.ts).  One run of the action:  *)
(* analyze.pc is the await it is suspended at, and process.exit() and an    *)
(* exception that leaves the action both end the process.                   *)
(***************************************************************************)
ArtifactKeys ==
  {"persona", "background", "goals", "behaviors", "session", "tasks", "observations",
   "screenshots"}

\* JSON.parse of a file in which the keys in missing are absent
ParsedWithout(artifact, missing) ==
  [k \in ArtifactKeys |-> IF k \in missing THEN Undefined ELSE Some(artifact[k])]

AnalyzeShots ==
  {[name |-> QuotesText, filepath |-> <<"test-results", "/", "a.png">>,
    base64 |-> Some(<<"i", "m", "g">>), context |-> MarkupText,
    url |-> <<"h", ":", "/">>, timestamp |-> ToISOString(0)],
   [name |-> MarkupText, filepath |-> <<"test-results", "/", "b.png">>,
    base64 |-> Some(<<>>), context |-> EntityText,
    url |-> <<"h", ":", "/">>, timestamp |-> ToISOString(0)]}

OneObservation ==
  << [type |-> "note", description |-> EntityText, location |-> MarkupText,
      timestamp |-> ToISOString(0), recommendation |-> Undefined] >>

\* what the results file may hold: nothing (ENOENT), text that is not JSON, or
\* an object with some of an artifact's keys
ResultsFiles ==
  {[kind |-> "ENOENT"], [kind |-> "notjson"]}
  \cup {[kind |-> "json",
         value |-> ParsedWithout(ArtifactWith(MarkupText, <<>>, <<>>, s), {})] :
          s \in ListsOver(AnalyzeShots, MaxList)}
  \cup {[kind |-> "json",
         value |-> ParsedWithout(ArtifactWith(MarkupText, OneObservation, TaskRun(1, 2), s),
                                 {})] :
          s \in ListsOver(AnalyzeShots, MaxList)}
  \cup {[kind |-> "json",
         value |-> ParsedWithout(ArtifactWith(<<>>, OneObservation, TaskRun(1, 2), <<>>),
                                 {})]}
  \cup {[kind |-> "json",
         value |-> ParsedWithout(ArtifactWith(MarkupText, OneObservation, TaskRun(1, 2),
                                              <<>>), {k})] :
          k \in ArtifactKeys}

\* the texts given to --max-screenshots: the default, numerals with and without
\* a sign, and a text that is no numeral
MaxScreenshotsTexts == {<<"1", "0">>, <<"1">>, <<"0">>, <<"-", "1">>, <<"x">>}

AnalyzeOptions ==
  [apiKey : {Undefined, Some(""), Some("sk-ant-option")},
   output : {"analysis-report.md"},
   model : {"claude-sonnet-4-20250514"},
   maxScreenshots : MaxScreenshotsTexts]

Environments == [ANTHROPIC_API_KEY : {Undefined, Some(""), Some("sk-ant-env")}]

\* what fetch() may settle with: a rejection, or a response and its body
Responses ==
  {[ok |-> TRUE, status |-> 200,
    body |-> [kind |-> "json", content |-> Some(<< [type |-> "text", text |-> "analysis"] >>),
              error |-> Undefined]],
   [ok |-> TRUE, status |-> 200,
    body |-> [kind |-> "json", content |-> Some(<< [type |-> "text", text |-> ""] >>),
              error |-> Undefined]],
   [ok |-> TRUE, status |-> 200,
    body |-> [kind |-> "json", content |-> Some(<<>>), error |-> Undefined]],
   [ok |-> TRUE, status |-> 200,
    body |-> [kind |-> "json", content |-> Undefined, error |-> Undefined]],
   [ok |-> TRUE, status |-> 200,
    body |-> [kind |-> "notjson", content |-> Undefined, error |-> Undefined]],
   [ok |-> FALSE, status |-> 401,
    body |-> [kind |-> "json", content |-> Undefined,
              error |-> Some([message |-> "invalid x-api-key"])]],
   [ok |-> FALSE, status |-> 429,
    body |-> [kind |-> "notjson", content |-> Undefined, error |-> Undefined]],
   [ok |-> FALSE, status |-> 500,
    body |-> [kind |-> "json", content |-> Undefined, error |-> Undefined]],
   [ok |-> FALSE, status |-> 401,
    body |-> [kind |-> "notjson", content |-> Undefined, error |-> Undefined]],
   [ok |-> FALSE, status |-> 429,
    body |-> [kind |-> "json", content |-> Undefined,
              error |-> Some([message |-> "rate limited"])]],
   [ok |-> FALSE, status |-> 500,
    body |-> [kind |-> "json", content |-> Undefined,
              error |-> Some([message |-> "overloaded"])]],
   [ok |-> FALSE, status |-> 403,
    body |-> [kind |-> "json", content |-> Undefined,
              error |-> Some([message |-> ""])]]}

\* parseInt(text, 10) of an unsigned decimal numeral
RECURSIVE ParseDigits(_, _)
ParseDigits(text, acc) ==
  IF text = <<>> THEN acc
  ELSE ParseDigits(Tail(text),
                   10 * acc + (CHOOSE n \in 0..9 : ToString(n) = Head(text)))

DecimalDigits == {"0", "1", "2", "3", "4", "5", "6", "7", "8", "9"}

\* the longest prefix of text made of decimal digits
RECURSIVE DigitPrefix(_)
DigitPrefix(text) ==
  IF text = <<>> \/ Head(text) \notin DecimalDigits THEN <<>>
  ELSE <<Head(text)>> \o DigitPrefix(Tail(text))

\* a JavaScript number that is an integer, and the number NaN
Integer(n) == [nan |-> FALSE, value |-> n]

NaN == [nan |-> TRUE, value |-> 0]

\* parseInt(text, 10): an optional sign, then the digits up to the first
\* character that is none; NaN when there is no digit
parseInt(text) ==
  LET signed == text # <<>> /\ Head(text) \in {"-", "+"}
      digits == DigitPrefix(IF signed THEN Tail(text) ELSE text)
  IN IF digits = <<>> THEN NaN
     ELSE IF signed /\ Head(text) = "-" THEN Integer(0 - ParseDigits(digits, 0))
     ELSE Integer(ParseDigits(digits, 0))

\* a variant of SliceFromStart: the last elements are kept
SliceFromEnd(array, end) ==
  LET relativeEnd == IF end.nan \/ end.value < 0 THEN 0 ELSE end.value
  IN SubSeq(array, IF relativeEnd < Len(array) THEN Len(array) - relativeEnd + 1 ELSE 1,
            Len(array))

\* array.slice(0, end): NaN counts as 0, an end below zero counts from the
\* end of the array, and the result stops at the end of the array
SliceFromStart(array, end) ==
  LET relativeEnd == IF end.nan THEN 0 ELSE end.value
      final == IF relativeEnd < 0
                 THEN (IF Len(array) + relativeEnd > 0 THEN Len(array) + relativeEnd ELSE 0)
                 ELSE (IF relativeEnd < Len(array) THEN relativeEnd ELSE Len(array))
  IN SubSeq(array, 1, final)

\* the blocks pushed for the screenshots: an image and a caption for each one
\* whose base64 is truthy
RECURSIVE ScreenshotBlocks(_)
ScreenshotBlocks(shots) ==
  IF shots = <<>> THEN <<>>
  ELSE (IF TruthyText(Head(shots).base64)
          THEN << [type |-> "image", data |-> Head(shots).base64[1]],
                  [type |-> "text",
                   text |-> <<"screenshot", Head(shots).name, Head(shots).context,
                              Head(shots).url>>] >>
          ELSE <<>>)
       \o ScreenshotBlocks(Tail(shots))

\* messageContent, for results that hold observations and tasks
MessageContent(results, screenshotsToAnalyze) ==
  << [type |-> "text", text |-> <<"intro", Len(screenshotsToAnalyze)>>] >>
  \o ScreenshotBlocks(screenshotsToAnalyze)
  \o (IF Len(results.observations[1]) > 0
        THEN << [type |-> "text", text |-> <<"observations", results.observations[1]>>] >>
        ELSE <<>>)
  \o (IF Len(results.tasks[1]) > 0
        THEN << [type |-> "text", text |-> <<"tasks", results.tasks[1]>>] >>
        ELSE <<>>)

\* the request fetch() is called with
Request(apiKey, options, results) ==
  [url |-> "https://api.anthropic.com/v1/messages", method |-> "POST",
   apiKey |-> apiKey, model |-> options.model,
   system |-> [persona |-> results.persona[1], background |-> results.background,
               goals |-> results.goals[1], behaviors |-> results.behaviors[1]],
   content |-> MessageContent(results,
                 SliceFromStart(results.screenshots[1],
                                parseInt(options.maxScreenshots)))]

\* outputMd
OutputMd(options, results, analysis, t) ==
  [persona |-> results.persona[1], background |-> results.background,
   goals |-> results.goals[1], behaviors |-> results.behaviors[1],
   pagesVisited |-> results.session[1].pagesVisited,
   clickCount |-> results.session[1].clickCount,
   backNavCount |-> results.session[1].backNavCount,
   consoleErrors |-> Len(results.session[1].consoleErrors),
   screenshotsAnalyzed |-> Len(SliceFromStart(results.screenshots[1],
                                              parseInt(options.maxScreenshots))),
   analysis |-> analysis, model |-> options.model, generated |-> ToLocaleString(t)]

\* a variant of ExitWithError: console.error(message); process.exit()
ExitWithoutCode(run, message) ==
  [run EXCEPT !.pc = "exited", !.exit = Some(0), !.stderr = Append(@, message)]

\* console.error(message); process.exit(1)
ExitWithError(run, message) ==
  [run EXCEPT !.pc = "exited", !.exit = Some(1), !.stderr = Append(@, message)]

\* an exception leaves the action: the rejection is unhandled and the process
\* ends with a non-zero code
Uncaught(run, error) ==
  [run EXCEPT !.pc = "exited", !.exit = Some(1), !.uncaught = Some(error)]

\* JavaScript truthiness of an optional string: undefined and '' are falsy
TruthyString(x) == x # Undefined /\ x[1] # ""

\* a variant of ResolveKey: the environment is asked first
ResolveKeyFromEnvFirst(options, env) ==
  IF TruthyString(env.ANTHROPIC_API_KEY) THEN env.ANTHROPIC_API_KEY ELSE options.apiKey

\* options.apiKey || process.env.ANTHROPIC_API_KEY
ResolveKey(options, env) ==
  IF TruthyString(options.apiKey) THEN options.apiKey ELSE env.ANTHROPIC_API_KEY

\* lines 37-54: the key is resolved, fs.readFile is started
analyzeStarts ==
  /\ analyze.op = "analyze" /\ analyze.pc = "start"
  /\ LET apiKey == ResolveKey(analyze.options, analyze.env)
     IN analyze' = IF ~TruthyString(apiKey)
                     THEN ExitWithError(analyze, "Error: Anthropic API key required.")
                     ELSE [analyze EXCEPT !.pc = "readFile", !.apiKey = apiKey,
                                          !.fileReads = @ + 1]
  /\ UNCHANGED <<session, site, defineCall, report>>

\* a variant of ValidateAndSend: only the persona is validated
ValidateAndSendPersonaOnly(run, results) ==
  IF ~TruthyText(results.persona)
    THEN ExitWithError(run, "Error: Invalid PersonaSpec results file format")
  ELSE IF results.goals = Undefined \/ results.behaviors = Undefined
          \/ results.observations = Undefined \/ results.tasks = Undefined
    THEN Uncaught(run, "TypeError")
  ELSE LET listed == [results EXCEPT !.screenshots = IF @ = Undefined THEN Some(<<>>) ELSE @]
       IN [run EXCEPT !.pc = "fetch", !.results = Some(results),
                      !.screenshotsToAnalyze =
                        Some(SliceFromStart(listed.screenshots[1],
                                            parseInt(run.options.maxScreenshots))),
                      !.requests = Append(@, Request(run.apiKey[1], run.options, listed))]

\* lines 68-170, from the parsed results to the call of fetch
ValidateAndSend(run, results) ==
  IF ~TruthyText(results.persona) \/ results.screenshots = Undefined
    THEN ExitWithError(run, "Error: Invalid PersonaSpec results file format")
  ELSE IF results.goals = Undefined \/ results.behaviors = Undefined
          \/ results.observations = Undefined \/ results.tasks = Undefined
    THEN Uncaught([run EXCEPT !.screenshotsToAnalyze =
                                Some(SliceFromStart(results.screenshots[1],
                                                    parseInt(run.options.maxScreenshots)))],
                  "TypeError")
  ELSE [run EXCEPT !.pc = "fetch", !.results = Some(results),
                   !.screenshotsToAnalyze =
                     Some(SliceFromStart(results.screenshots[1],
                                         parseInt(run.options.maxScreenshots))),
                   !.requests = Append(@, Request(run.apiKey[1], run.options, results))]

\* lines 54-65: fs.readFile settles and the content is parsed
readFileSettles ==
  /\ analyze.op = "analyze" /\ analyze.pc = "readFile"
  /\ analyze' =
       IF analyze.file.kind = "ENOENT"
         THEN ExitWithError(analyze, "Error: File not found")
       ELSE IF analyze.file.kind = "notjson"
         THEN ExitWithError(analyze, "Error: Invalid JSON")
       ELSE ValidateAndSend(analyze, analyze.file.value)
  /\ UNCHANGED <<session, site, defineCall, report>>

\* lines 157-173, 196: fetch resolves; the body is asked for
fetchResolves(response) ==
  /\ analyze.op = "analyze" /\ analyze.pc = "fetch"
  /\ analyze' = [analyze EXCEPT !.pc = IF response.ok THEN "json" ELSE "text",
                                !.response = Some(response)]
  /\ UNCHANGED <<session, site, defineCall, report>>

\* lines 239-245: fetch rejects (no connection)
fetchRejects ==
  /\ analyze.op = "analyze" /\ analyze.pc = "fetch"
  /\ analyze' = ExitWithError(analyze,
                  "Error: Network request failed. Check your internet connection.")
  /\ UNCHANGED <<session, site, defineCall, report>>

\* `API request failed with status ${status}`, and a message of the body
DefaultMessage(status) ==
  [text |-> "API request failed with status ", status |-> Some(status)]

BodyMessage(message) == [text |-> message, status |-> Undefined]

\* lines 173-182: the message of the body when it is JSON with a truthy
\* error.message, the default message otherwise
ErrorMessage(response) ==
  IF response.body.kind = "json" /\ response.body.error # Undefined
     /\ response.body.error[1].message # ""
    THEN BodyMessage(response.body.error[1].message)
    ELSE DefaultMessage(response.status)

AuthHint == "Hint: Check that your API key is valid and has not expired."

RateLimitHint == "Hint: You may have hit rate limits. Try again in a few seconds."

\* a variant of Hints: the second test is not an else branch and asks for any
\* client error
HintsForClientErrors(status) ==
  (IF status = 401 THEN <<AuthHint>> ELSE <<>>)
  \o (IF status \in 400..499 THEN <<RateLimitHint>> ELSE <<>>)

\* lines 186-190: the hint printed after the error message
Hints(status) ==
  IF status = 401 THEN <<AuthHint>>
  ELSE IF status = 429 THEN <<RateLimitHint>>
  ELSE <<>>

\* lines 173-193: the body of a response that is not ok
textResolves ==
  /\ analyze.op = "analyze" /\ analyze.pc = "text"
  /\ LET response == analyze.response[1]
     IN analyze' =
          [analyze EXCEPT !.pc = "exited", !.exit = Some(1),
                          !.stderr = (@ \o << [error |-> ErrorMessage(response)] >>)
                                     \o Hints(response.status)]
  /\ UNCHANGED <<session, site, defineCall, report>>

\* lines 196-237: the body of a response that is ok; fs.writeFile is started
jsonSettles ==
  /\ analyze.op = "analyze" /\ analyze.pc = "json"
  /\ LET body == analyze.response[1].body
         results == analyze.results[1]
     IN analyze' =
          IF body.kind = "notjson"
            THEN ExitWithError(analyze, "Error: Unexpected token")
          ELSE IF body.content = Undefined \/ Len(body.content[1]) = 0
                  \/ body.content[1][1].text = ""
            THEN ExitWithError(analyze, "Error: Unexpected API response format")
          ELSE IF results.session = Undefined
            THEN ExitWithError(analyze, "Error: Cannot read properties of undefined")
          ELSE [analyze EXCEPT !.pc = "writeFile",
                               !.outputMd = Some(OutputMd(analyze.options, results,
                                                          body.content[1][1].text, now))]
  /\ UNCHANGED <<session, site, defineCall, report>>

\* lines 237-238: fs.writeFile resolved; the action returns
writeFileResolves ==
  /\ analyze.op = "analyze" /\ analyze.pc = "writeFile"
  /\ analyze' = [analyze EXCEPT !.pc = "exited", !.exit = Some(0),
                                !.outputFile = Some([complete |-> TRUE,
                                                     content |-> analyze.outputMd[1]])]
  /\ UNCHANGED <<session, site, defineCall, report>>

\* lines 237, 239-245: fs.writeFile rejected, with or without a part written
writeFileRejects(partial) ==
  /\ analyze.op = "analyze" /\ analyze.pc = "writeFile"
  /\ analyze' = [ExitWithError(analyze, "Error: write failed")
                   EXCEPT !.outputFile =
                     IF partial THEN Some([complete |-> FALSE,
                                           content |-> analyze.outputMd[1]])
                     ELSE @]
  /\ UNCHANGED <<session, site, defineCall, report>>

InitAnalyze ==
  /\ NoSession
  /\ defineCall = [op |-> "none"]
  /\ initCommand = [op |-> "none"]
  /\ nav = [op |-> "none"]
  /\ report = [op |-> "none"]
  /\ \E options \in AnalyzeOptions, env \in Environments, file \in ResultsFiles :
       analyze = [op |-> "analyze", pc |-> "start", options |-> options, env |-> env,
                  file |-> file, fileReads |-> 0, apiKey |-> Undefined,
                  results |-> Undefined, screenshotsToAnalyze |-> Undefined,
                  requests |-> <<>>, response |-> Undefined, outputMd |-> Undefined,
                  outputFile |-> Undefined, exit |-> Undefined, stderr |-> <<>>,
                  uncaught |-> Undefined]

NextAnalyze ==
  \/ analyzeStarts
  \/ readFileSettles
  \/ \E response \in Responses : fetchResolves(response)
  \/ fetchRejects
  \/ textResolves
  \/ jsonSettles
  \/ writeFileResolves
  \/ \E partial \in BOOLEAN : writeFileRejects(partial)

SpecAnalyze == InitAnalyze /\ [][NextAnalyze]_vars

(***************************************************************************)
(* The report command (cli/commands/report.ts, reportCommand).  One run    *)
(* of the action: report.pc is the await it is suspended at.               *)
(***************************************************************************)
ReportOptions == [output : {"report.html", "out/session.html"}]

\* the artifact JSON.parse returned, every key of which is present
Parsed(value) == [k \in ArtifactKeys |-> value[k][1]]

\* a variant of ValidateAndRender: the head of the page is written before the
\* rest is rendered, and the whole page after it
ValidateAndRenderInTwoWrites(run, results) ==
  IF ~TruthyText(results.persona) \/ results.observations = Undefined
    THEN ExitWithError(run, "Error: Invalid PersonaSpec results file format")
  ELSE IF \E k \in ArtifactKeys : results[k] = Undefined
    THEN Uncaught(run, "TypeError")
  ELSE LET html == generateHtml(Parsed(results), now)
       IN [run EXCEPT !.pc = "writeFile", !.results = Some(results), !.html = Some(html),
                      !.writes = @ \o << [path |-> run.options.output,
                                          data |-> [title |-> html.title]],
                                        [path |-> run.options.output, data |-> html] >>]

\* lines 481-494, from the parsed results to the call of fs.writeFile: the
\* validation, the summary lines (tasks.length, screenshots.length) and
\* generateHtml, which throw a TypeError on a key that is absent
ValidateAndRender(run, results) ==
  IF ~TruthyText(results.persona) \/ results.observations = Undefined
    THEN ExitWithError(run, "Error: Invalid PersonaSpec results file format")
  ELSE IF \E k \in ArtifactKeys : results[k] = Undefined
    THEN Uncaught(run, "TypeError")
  ELSE LET html == generateHtml(Parsed(results), now)
       IN [run EXCEPT !.pc = "writeFile", !.results = Some(results), !.html = Some(html),
                      !.writes = Append(@, [path |-> run.options.output, data |-> html])]

\* lines 466-479: fs.readFile settles and the content is parsed
reportReadFileSettles ==
  /\ report.op = "report" /\ report.pc = "readFile"
  /\ report' =
       IF report.file.kind = "ENOENT"
         THEN ExitWithError(report, "Error: File not found")
       ELSE IF report.file.kind = "notjson"
         THEN ExitWithError(report, "Error: Invalid JSON")
       ELSE ValidateAndRender(report, report.file.value)
  /\ UNCHANGED <<session, site, defineCall, analyze>>

\* lines 494-495: fs.writeFile resolved; the action returns
reportWriteFileResolves ==
  /\ report.op = "report" /\ report.pc = "writeFile"
  /\ report' = [report EXCEPT !.pc = "exited", !.exit = Some(0),
                              !.outputFile =
                                Some([complete |-> TRUE,
                                      content |-> report.writes[Len(report.writes)].data])]
  /\ UNCHANGED <<session, site, defineCall, analyze>>

\* line 494: fs.writeFile rejected, with or without a part written; nothing
\* catches the exception
reportWriteFileRejects(partial) ==
  /\ report.op = "report" /\ report.pc = "writeFile"
  /\ report' = [Uncaught(report, "write failed")
                  EXCEPT !.outputFile =
                    IF partial
                      THEN Some([complete |-> FALSE,
                                 content |-> report.writes[Len(report.writes)].data])
                    ELSE @]
  /\ UNCHANGED <<session, site, defineCall, analyze>>

InitReportCommand ==
  /\ NoSession
  /\ defineCall = [op |-> "none"]
  /\ initCommand = [op |-> "none"]
  /\ nav = [op |-> "none"]
  /\ analyze = [op |-> "none"]
  /\ \E options \in ReportOptions, file \in ResultsFiles :
       report = [op |-> "report", pc |-> "readFile", options |-> options, file |-> file,
                 results |-> Undefined, html |-> Undefined, writes |-> <<>>,
                 outputFile |-> Undefined, exit |-> Undefined, stderr |-> <<>>,
                 uncaught |-> Undefined]

NextReportCommand ==
  \/ reportReadFileSettles
  \/ reportWriteFileResolves
  \/ \E partial \in BOOLEAN : reportWriteFileRejects(partial)

SpecReportCommand == InitReportCommand /\ [][NextReportCommand]_vars

(***************************************************************************)
(* The init command (cli/commands/init.ts).  One run of the action in a    *)
(* project directory: initCommand.pc is the await it is suspended at,      *)
(* initCommand.i the entry of `files` the loop is at, initCommand.files    *)
(* what the three paths hold on disk.                                      *)
(***************************************************************************)
\* Object.entries(files): the paths in insertion order, and their templates
ScaffoldPaths ==
  <<"playwright.config.ts", "tests/utils/observation-collector.ts",
    "tests/personas/first-visitor.spec.ts">>

ScaffoldTemplates ==
  <<"PLAYWRIGHT_CONFIG", "OBSERVATION_COLLECTOR_WRAPPER", "EXAMPLE_PERSONA_TEST">>

GITIGNORE_ADDITIONS == <<"", "# PersonaSpec test results", "test-results/", "*.observations.json">>

\* what a path may hold before the run: nothing, or a file the user wrote
UserFile == [complete |-> TRUE, content |-> "written by the user"]

ProjectFiles == [1..Len(ScaffoldPaths) -> {Undefined, Some(UserFile)}]

\* the lines .gitignore may hold before the run, if it exists
GitignoreFiles == {Undefined, Some(<<>>), Some(<<"node_modules/">>), Some(<<"test-results/">>)}

InitOptions == [force : BOOLEAN, skipGitignore : BOOLEAN]

\* a variant of SkipsFile: an existing file is never skipped
SkipsNoFile(exists, force) == FALSE

\* lines 293-298: the file is skipped when fs.access found it and --force is
\* not given
SkipsFile(exists, force) == exists /\ ~force

\* the loop goes on with the next entry of files, or leaves for .gitignore
NextFile(run) ==
  IF run.i < Len(ScaffoldPaths) THEN [run EXCEPT !.pc = "access", !.i = @ + 1]
  ELSE [run EXCEPT !.pc = "gitignore"]

\* lines 275-279: the three directories are made
initMkdirsResolve ==
  /\ initCommand.op = "init" /\ initCommand.pc = "mkdirs"
  /\ initCommand' = [initCommand EXCEPT !.pc = "access", !.i = 1,
                                        !.dirs = {"tests/personas", "tests/utils",
                                                  "test-results"}]
  /\ UNCHANGED <<session, defineCall, report, analyze, nav>>

\* lines 292-301: fs.access settles
initAccessSettles ==
  /\ initCommand.op = "init" /\ initCommand.pc = "access"
  /\ LET i == initCommand.i
         exists == initCommand.files[i] # Undefined
     IN initCommand' =
          IF SkipsFile(exists, initCommand.options.force)
            THEN NextFile([initCommand EXCEPT
                             !.stdout = Append(@, <<"Skipped", ScaffoldPaths[i]>>)])
            ELSE [initCommand EXCEPT !.pc = "mkdir"]
  /\ UNCHANGED <<session, defineCall, report, analyze, nav>>

\* line 303: fs.mkdir(path.dirname(fullPath)) resolved; fs.writeFile is started
initMkdirResolves ==
  /\ initCommand.op = "init" /\ initCommand.pc = "mkdir"
  /\ initCommand' = [initCommand EXCEPT !.pc = "writeFile"]
  /\ UNCHANGED <<session, defineCall, report, analyze, nav>>

\* lines 304-305: fs.writeFile(fullPath, content) resolved
initWriteFileResolves ==
  /\ initCommand.op = "init" /\ initCommand.pc = "writeFile"
  /\ LET i == initCommand.i
     IN initCommand' =
          NextFile([initCommand EXCEPT
                      !.files[i] = Some([complete |-> TRUE, content |-> ScaffoldTemplates[i]]),
                      !.stdout = Append(@, <<"Created", ScaffoldPaths[i]>>)])
  /\ UNCHANGED <<session, defineCall, report, analyze, nav>>

\* line 304: fs.writeFile rejected, with or without a part written; nothing
\* catches the exception
initWriteFileRejects(partial) ==
  /\ initCommand.op = "init" /\ initCommand.pc = "writeFile"
  /\ LET i == initCommand.i
     IN initCommand' =
          [Uncaught(initCommand, "write failed") EXCEPT
             !.files[i] = IF partial
                            THEN Some([complete |-> FALSE, content |-> ScaffoldTemplates[i]])
                          ELSE @]
  /\ UNCHANGED <<session, defineCall, report, analyze, nav>>

\* lines 309-321: .gitignore, if there is one that does not list test-results/,
\* is appended to; the action returns
initGitignoreSettles ==
  /\ initCommand.op = "init" /\ initCommand.pc = "gitignore"
  /\ LET existing == initCommand.gitignore
         appends == /\ ~initCommand.options.skipGitignore
                    /\ existing # Undefined
                    /\ \A l \in 1..Len(existing[1]) : existing[1][l] # "test-results/"
     IN initCommand' =
          [initCommand EXCEPT
             !.pc = "exited", !.exit = Some(0),
             !.gitignore = IF appends THEN Some(existing[1] \o GITIGNORE_ADDITIONS) ELSE @,
             !.stdout = IF appends THEN Append(@, <<"Updated", ".gitignore">>) ELSE @]
  /\ UNCHANGED <<session, defineCall, report, analyze, nav>>

InitInit ==
  /\ NoSession
  /\ defineCall = [op |-> "none"]
  /\ report = [op |-> "none"]
  /\ analyze = [op |-> "none"]
  /\ nav = [op |-> "none"]
  /\ \E options \in InitOptions, files \in ProjectFiles, gitignore \in GitignoreFiles :
       initCommand = [op |-> "init", pc |-> "mkdirs", options |-> options, i |-> 0,
                      before |-> files, files |-> files, gitignore |-> gitignore,
                      dirs |-> {}, stdout |-> <<>>, exit |-> Undefined,
                      uncaught |-> Undefined]

NextInit ==
  \/ initMkdirsResolve
  \/ initAccessSettles
  \/ initMkdirResolves
  \/ initWriteFileResolves
  \/ \E partial \in BOOLEAN : initWriteFileRejects(partial)
  \/ initGitignoreSettles

SpecInit == InitInit /\ [][NextInit]_vars

(***************************************************************************)
(* The site's navigation (js/main.js).  The page holds #nav, and inside it *)
(* #nav-toggle and #nav-links with its links.  nav.linksClasses is the     *)
(* classList of #nav-links, nav.ariaExpanded the aria-expanded attribute   *)
(* of #nav-toggle, nav.navClasses the classList of #nav; nav.events lists  *)
(* the events dispatched since the script ran.                             *)
(***************************************************************************)
\* the number of events dispatched to the page
MaxEvents == 3

\* the elements a click may hit: the toggle, a link of the list, another place
\* inside #nav, and a place of the document outside #nav
ClickTargets == {"nav-toggle", "link", "nav", "outside"}

\* nav.contains(event.target)
NavContains(target) == target \in {"nav-toggle", "link", "nav"}

\* the values window.scrollY takes
ScrollPositions == {0, 51}

\* the string setAttribute() stores for a boolean
BooleanToString(b) == IF b THEN "true" ELSE "false"

\* lines 43-46: the click listener of #nav-toggle
ToggleListener(page) ==
  LET isOpen == "is-open" \notin page.linksClasses
  IN [page EXCEPT !.linksClasses = IF isOpen THEN @ \cup {"is-open"} ELSE @ \ {"is-open"},
                  !.ariaExpanded = Some(BooleanToString(isOpen))]

\* lines 50-53: the click listener of each link of #nav-links
LinkListener(page) ==
  [page EXCEPT !.linksClasses = @ \ {"is-open"}, !.ariaExpanded = Some("false")]

\* a variant of DocumentListener: every click closes the menu
DocumentListenerClosesAlways(page, target) ==
  [page EXCEPT !.linksClasses = @ \ {"is-open"}, !.ariaExpanded = Some("false")]

\* lines 57-62: the click listener of the document
DocumentListener(page, target) ==
  IF ~NavContains(target)
    THEN [page EXCEPT !.linksClasses = @ \ {"is-open"}, !.ariaExpanded = Some("false")]
    ELSE page

\* a click on target: the listener of the element runs, and the event bubbles
\* to the listener of the document
click(target) ==
  /\ nav.op = "page" /\ Len(nav.events) < MaxEvents
  /\ LET atTarget == IF target = "nav-toggle" THEN ToggleListener(nav)
                     ELSE IF target = "link" THEN LinkListener(nav)
                     ELSE nav
     IN nav' = [DocumentListener(atTarget, target) EXCEPT !.events = Append(@, target)]
  /\ UNCHANGED <<session, defineCall, report, analyze, initCommand>>

\* lines 15-30: a scroll event; handleScroll runs in the next animation frame
scroll(scrollY) ==
  /\ nav.op = "page" /\ Len(nav.events) < MaxEvents
  /\ nav' = [nav EXCEPT !.navClasses = IF scrollY > 50 THEN @ \cup {"nav--scrolled"}
                                       ELSE @ \ {"nav--scrolled"},
                        !.events = Append(@, "scroll")]
  /\ UNCHANGED <<session, defineCall, report, analyze, initCommand>>

\* the page after the script ran: the markup decides whether the list starts
\* open and what aria-expanded holds, and handleScroll ran once
InitNav ==
  /\ NoSession
  /\ defineCall = [op |-> "none"]
  /\ report = [op |-> "none"]
  /\ analyze = [op |-> "none"]
  /\ initCommand = [op |-> "none"]
  /\ \E linksClasses \in SUBSET {"is-open"},
        ariaExpanded \in {Undefined, Some("false"), Some("true")},
        scrollY \in ScrollPositions :
       nav = [op |-> "page", linksClasses |-> linksClasses, ariaExpanded |-> ariaExpanded,
              navClasses |-> IF scrollY > 50 THEN {"nav--scrolled"} ELSE {},
              events |-> <<>>]

NextNav ==
  \/ \E target \in ClickTargets : click(target)
  \/ \E scrollY \in ScrollPositions : scroll(scrollY)

SpecNav == InitNav /\ [][NextNav]_vars

(***************************************************************************)
(* Properties of the collector.                                            *)
(***************************************************************************)
\* C1: nothing a caller writes to a value returned by getObservations(),
\* getMetrics(), getTasks() or getPersona(), nested parts included, changes what
\* the collector holds.
C1_AccessorsReturnDefensiveCopies ==
  [][lastOp'.op \in {"callerWritesReturned", "callerWritesNested"}
       => CollectorState' = CollectorState]_vars

\* C2: whenever save() resolves in a sequential session, the artifact it wrote
\* holds the observations, tasks and screenshots that were in memory when it was
\* called (same elements, same order), its session counters are the in-memory
\* counters, and session.screenshotsCaptured is the length of its screenshots.
C2_ArtifactMatchesMemory ==
  (lastOp.op = "save" /\ lastOp.outcome = "resolved") =>
    LET file == disk[lastOp.ret] IN
      /\ file.kind = "json" /\ file.complete
      /\ file.content.observations = lastOp.entry.observations
      /\ file.content.tasks = lastOp.entry.tasks
      /\ file.content.screenshots = lastOp.entry.screenshots
      /\ file.content.observations = Observations
      /\ file.content.tasks = Tasks
      /\ file.content.screenshots = Screenshots
      /\ file.content.session.pagesVisited = Metrics.pagesVisited
      /\ file.content.session.clickCount = Metrics.clickCount
      /\ file.content.session.searchCount = Metrics.searchCount
      /\ file.content.session.backNavCount = Metrics.backNavCount
      /\ file.content.session.screenshotsCaptured = Len(file.content.screenshots)

\* a second save() resolved after a screenshot was captured since the first
C2_Witness ==
  /\ lastOp.op = "save" /\ lastOp.outcome = "resolved" /\ lastOp.overwrote
  /\ Len(disk[lastOp.ret].content.screenshots) = 1

\* C3: recordTask called with a task start pending records, and returns, the
\* clock value at the call minus the clock value of the most recent startTask().
C3_DurationIsClockDelta ==
  (lastOp.op = "recordTask" /\ lastOp.pending # Undefined) =>
    /\ lastOp.ret.duration = now - lastOp.pending[1]
    /\ Tasks[Len(Tasks)].duration = now - lastOp.pending[1]

\* C4 as stated: recordTask records a duration of 0 exactly when no task start
\* is pending.
C4_ZeroExactlyWhenNoStartPending ==
  lastOp.op = "recordTask" => (lastOp.ret.duration = 0 <=> lastOp.pending = Undefined)

\* C4 as amended: recordTask called with no task start pending (none since
\* construction, since the previous recordTask or since reset()) records a
\* duration of 0, still appends the result, and leaves no start pending.
C4_NoStartPendingGivesZero ==
  [][(lastOp'.op = "recordTask" /\ startedAt = Undefined) =>
        /\ currentTaskStart = Undefined
        /\ lastOp'.ret.duration = 0
        /\ Tasks' = Append(Tasks, lastOp'.ret)
        /\ currentTaskStart' = Undefined]_vars

\* a second recordTask with no startTask() since the first
C4_Witness ==
  /\ lastOp.op = "recordTask" /\ lastOp.pending = Undefined
  /\ Len(Tasks) = 2 /\ Tasks[2].duration = 0 /\ now = 1

\* C5: a screenshot() call that rejects, at whichever await, leaves the
\* observations, tasks, screenshots, metrics, pending task start and persona as
\* they were when it was called.
C5_FailedCaptureLeavesState ==
  (lastOp.op = "screenshot" /\ lastOp.outcome = "rejected") => CollectorState = lastOp.entry

\* a capture that failed reading the page title, after its file was written,
\* in a session that already holds a screenshot
C5_Witness ==
  /\ lastOp.op = "screenshot" /\ lastOp.outcome = "rejected" /\ lastOp.at = "title"
  /\ Len(Screenshots) = 1

\* C6: any two records in the screenshots sequence have distinct filepaths.
C6_FilepathsAreDistinct ==
  \A i, j \in 1..Len(Screenshots) :
    i # j => Screenshots[i].filepath # Screenshots[j].filepath

\* C7: every record in the screenshots sequence had its image bytes written to
\* its filepath, by a write that ran to completion, before it was appended; at
\* the moment a record is appended the file at its filepath holds those bytes
\* whole.
C7_WrittenBeforeAppended ==
  /\ \A i \in 1..Len(Screenshots) :
       \E w \in writeLog :
         /\ w.path = Screenshots[i].filepath
         /\ config.includeBase64 => Screenshots[i].base64 = ToBase64(w.bytes)
  /\ (lastOp.op = "screenshot" /\ lastOp.outcome = "resolved") =>
       /\ Screenshots[Len(Screenshots)] = lastOp.ret
       /\ lastOp.ret.filepath \in DOMAIN disk
       /\ disk[lastOp.ret.filepath].kind = "image"
       /\ disk[lastOp.ret.filepath].complete
       /\ config.includeBase64 =>
            lastOp.ret.base64 = ToBase64(disk[lastOp.ret.filepath].content)

\* a capture resolved and its record is the last of two
C7_Witness ==
  /\ lastOp.op = "screenshot" /\ lastOp.outcome = "resolved"
  /\ Len(Screenshots) = 2

\* C8: reset() empties observations, screenshots and tasks, clears the pending
\* task start, zeroes the four counters, empties consoleErrors, removes endTime
\* and screenshotsCaptured, stamps startTime anew, and leaves the persona, its
\* identity string and the artifact path as they were.
C8_ResetClearsSessionKeepsPersona ==
  [][lastOp'.op = "reset" =>
       /\ Observations' = <<>> /\ Screenshots' = <<>> /\ Tasks' = <<>>
       /\ currentTaskStart' = Undefined
       /\ Metrics'.pagesVisited = 0 /\ Metrics'.clickCount = 0
       /\ Metrics'.searchCount = 0 /\ Metrics'.backNavCount = 0
       /\ ConsoleErrors' = <<>>
       /\ Metrics'.endTime = Undefined /\ Metrics'.screenshotsCaptured = Undefined
       /\ Metrics'.startTime = ToISOString(now')
       /\ PersonaFields' = PersonaFields
       /\ PersonaIdentity(config'.persona) = PersonaIdentity(config.persona)
       /\ ArtifactPath(config') = ArtifactPath(config)]_vars

\* reset() of a session that held an observation and had been saved
C8_Witness ==
  /\ lastOp.op = "reset"
  /\ Len(heap[<<"observations", 0>>]) = 1
  /\ heap[<<"metrics", 0>>].endTime # Undefined
  /\ Observations = <<>> /\ Metrics.endTime = Undefined

\* C9: trackPageLoad, trackClick, trackSearch and trackBackNav each add 1 to
\* their own counter and change nothing else the collector holds;
\* addConsoleError(message) appends message to consoleErrors and changes nothing
\* else.
C9_TrackingTouchesOneField ==
  [][/\ lastOp'.op = "trackPageLoad" =>
          CollectorState' = [CollectorState EXCEPT !.metrics.pagesVisited = @ + 1]
     /\ lastOp'.op = "trackClick" =>
          CollectorState' = [CollectorState EXCEPT !.metrics.clickCount = @ + 1]
     /\ lastOp'.op = "trackSearch" =>
          CollectorState' = [CollectorState EXCEPT !.metrics.searchCount = @ + 1]
     /\ lastOp'.op = "trackBackNav" =>
          CollectorState' = [CollectorState EXCEPT !.metrics.backNavCount = @ + 1]
     /\ lastOp'.op = "addConsoleError" =>
          CollectorState' =
            [CollectorState EXCEPT !.metrics.consoleErrors = Append(@, lastOp'.message)]
    ]_vars

\* two console errors were logged in order after a search was tracked
C9_Witness ==
  /\ lastOp.op = "addConsoleError"
  /\ ConsoleErrors = <<"e1", "e2">>
  /\ Metrics.searchCount = 1 /\ Metrics.clickCount = 0

\* the four counters of this.metrics
Counters(m) == <<m.pagesVisited, m.clickCount, m.searchCount, m.backNavCount>>

\* C10: the four counters are non-negative integers in every state, and no
\* operation other than reset() decreases any of them.
C10_CountersMonotonic ==
  /\ [](\A k \in 1..4 : Counters(Metrics)[k] \in Nat)
  /\ [][lastOp'.op # "reset" =>
          \A k \in 1..4 : Counters(Metrics')[k] >= Counters(Metrics)[k]]_vars

\* counters that were incremented, the last operation being a caller's write to
\* a value returned by getMetrics()
C10_Witness ==
  /\ Metrics.pagesVisited = 1
  /\ lastOp.op = "callerWritesReturned" /\ returned.kind = "metrics"
  /\ heap[returned.ref].pagesVisited = -1

\* the methods of the collector and the resumptions of its asynchronous ones
\* (the steps of a caller that writes to a returned value are C1's subject)
CollectorOps ==
  {"observe", "startTask", "recordTask", "trackPageLoad", "trackClick", "trackSearch",
   "trackBackNav", "addConsoleError", "reset", "getObservations", "getMetrics",
   "getTasks", "getPersona", "screenshot", "save"}

IsPrefix(s, t) == Len(s) <= Len(t) /\ SubSeq(t, 1, Len(s)) = s

ExtendsByOne(s, t) == Len(t) = Len(s) + 1 /\ SubSeq(t, 1, Len(s)) = s

\* C11: across every operation of the collector other than reset(), each of the
\* observations, tasks and screenshots sequences before the operation is a prefix
\* of the sequence after it, records compared field by field; observe(),
\* recordTask() and a screenshot() that resolves each add exactly one element at
\* the end of their own sequence and leave the other two as they were, and every
\* other operation leaves all three as they were.
C11_SequencesAppendOnly ==
  [][(lastOp'.op \in CollectorOps /\ lastOp'.op # "reset")
       => /\ IsPrefix(Observations, Observations')
          /\ IsPrefix(Tasks, Tasks')
          /\ IsPrefix(Screenshots, Screenshots')
          /\ IF lastOp'.op = "observe"
               THEN /\ ExtendsByOne(Observations, Observations')
                    /\ Tasks' = Tasks /\ Screenshots' = Screenshots
             ELSE IF lastOp'.op = "recordTask"
               THEN /\ ExtendsByOne(Tasks, Tasks')
                    /\ Observations' = Observations /\ Screenshots' = Screenshots
             ELSE IF lastOp'.op = "screenshot" /\ lastOp'.outcome = "resolved"
               THEN /\ ExtendsByOne(Screenshots, Screenshots')
                    /\ Observations' = Observations /\ Tasks' = Tasks
             ELSE /\ Observations' = Observations
                  /\ Tasks' = Tasks
                  /\ Screenshots' = Screenshots]_vars

\* an observation was appended behind an earlier one of another type
C11_Witness ==
  /\ lastOp.op = "observe"
  /\ Len(Observations) = 2
  /\ Observations[1].type # Observations[2].type

\* C12: save() writes to {outputDir}/{persona name in lower case, each run of
\* whitespace replaced by one '-'}-observations.json and returns that path (the
\* path a collector whose persona is named "a-b" uses too); once it has resolved,
\* the file holds exactly the aggregate the collector holds now, complete, with
\* nothing of what the file held before.
C12_SaveReplacesArtifact ==
  (lastOp.op = "save" /\ lastOp.outcome = "resolved") =>
    /\ config.persona.name = <<"A", " ", " ", "b">>
    /\ lastOp.ret = <<"test-results", "/", "a", "-", "b", "-observations.json">>
    /\ lastOp.ret = ArtifactPath([config EXCEPT !.persona.name = <<"a", "-", "b">>])
    /\ disk[lastOp.ret] =
         [kind |-> "json", complete |-> TRUE,
          content |->
            [persona |-> config.persona.name \o <<" - ", config.persona.role>>,
             background |-> config.persona.background,
             goals |-> heap[config.persona.goals],
             behaviors |-> heap[config.persona.behaviors],
             session |-> StringifyMetrics(heap, Metrics),
             tasks |-> Tasks,
             observations |-> Observations,
             screenshots |-> Screenshots]]

\* save() resolved over the complete artifact of an earlier save(), after an
\* observation was recorded in between
C12_Witness ==
  /\ lastOp.op = "save" /\ lastOp.outcome = "resolved" /\ lastOp.overwrote
  /\ Len(disk[lastOp.ret].content.observations) = 1

\* C26: at every point of a save() call, and after it resolved or rejected, the
\* collector holds what it held when save() was called (observations, tasks,
\* screenshots, the four counters, consoleErrors, startTime, the pending task
\* start, the persona) but for endTime, the time of the call, and
\* screenshotsCaptured, the number of screenshots; and the file a resolved
\* save() leaves holds every observation, task and screenshot held at the call.
C26_SaveChangesOnlyEndTimeAndCount ==
  lastOp.op = "save" =>
    LET entry == IF lastOp.outcome = "pending"
                   THEN calls[CHOOSE id \in DOMAIN calls : TRUE].entry
                   ELSE lastOp.entry
    IN /\ CollectorState =
            [entry EXCEPT !.metrics.endTime = Some(ToISOString(now)),
                          !.metrics.screenshotsCaptured = Some(Len(entry.screenshots))]
       /\ lastOp.outcome = "resolved" =>
            /\ disk[lastOp.ret].content.observations = entry.observations
            /\ disk[lastOp.ret].content.tasks = entry.tasks
            /\ disk[lastOp.ret].content.screenshots = entry.screenshots

\* a second save() resolved after a page load was tracked and an earlier save()
C26_Witness ==
  /\ lastOp.op = "save" /\ lastOp.outcome = "resolved"
  /\ lastOp.entry.metrics.endTime # Undefined
  /\ lastOp.entry.metrics.pagesVisited = 1
  /\ Metrics.pagesVisited = 1 /\ Metrics.screenshotsCaptured = Some(0)

\* the calls that settle in this step
Settling == DOMAIN calls \ DOMAIN calls'

\* C29: when screenshot() calls overlap, a step in which no call settles, or in
\* which a call rejects, leaves the screenshots sequence as it is, and a step
\* in which a call resolves appends, after every record already there, exactly
\* one record, with the name, the context, the timestamp and the encoded bytes
\* of that call, which is the record the call returns; so the records are in
\* order of completion and none is lost or doubled.
C29_OverlappingCapturesAppendOwnRecord ==
  [][/\ Cardinality(Settling) <= 1
     /\ Settling = {} => Screenshots' = Screenshots
     /\ \A id \in Settling :
          IF lastOp'.outcome = "resolved"
            THEN /\ Len(Screenshots') = Len(Screenshots) + 1
                 /\ SubSeq(Screenshots', 1, Len(Screenshots)) = Screenshots
                 /\ LET record == Screenshots'[Len(Screenshots')]
                    IN /\ record = lastOp'.ret
                       /\ record.name = calls[id].name
                       /\ record.context = calls[id].context
                       /\ record.timestamp = calls[id].timestamp
                       /\ record.base64 = (IF config.includeBase64
                                             THEN ToBase64(calls[id].buffer[1])
                                             ELSE EmptyString)
            ELSE Screenshots' = Screenshots
    ]_vars

\* two overlapping captures resolved in the order opposite to their invocation,
\* each with its own bytes
C29_Witness ==
  /\ lastOp.op = "screenshot" /\ lastOp.outcome = "resolved"
  /\ Len(Screenshots) = 2
  /\ Screenshots[1].timestamp = ToISOString(1) /\ Screenshots[2].timestamp = ToISOString(0)
  /\ Screenshots[1].context # Screenshots[2].context
  /\ Screenshots[1].base64 = ToBase64("img1") /\ Screenshots[2].base64 = ToBase64("img2")

(***************************************************************************)
(* Properties of definePersona() and the templates.                        *)
(***************************************************************************)
HasText(field) == field # Undefined /\ \E i \in 1..Len(field[1]) : field[1][i] \notin Whitespace

HasElements(field) == field # Undefined /\ Len(field[1]) >= 1

\* r is s without the whitespace s starts with and the whitespace it ends with
IsTrimOf(r, s) ==
  /\ r = <<>> \/ (r[1] \notin Whitespace /\ r[Len(r)] \notin Whitespace)
  /\ \E i, j \in 0..Len(s) :
       /\ i + j <= Len(s)
       /\ \A k \in 1..i : s[k] \in Whitespace
       /\ \A k \in (Len(s) - j + 1)..Len(s) : s[k] \in Whitespace
       /\ r = SubSeq(s, i + 1, Len(s) - j)

\* C13: definePersona returns a descriptor exactly when name, role and
\* background each hold a character that is not whitespace and goals and
\* behaviors each hold at least one element; the descriptor's name, role and
\* background are the trimmed inputs and its goals and behaviors are the inputs'
\* elements trimmed, as many and in the same order; in every other case it throws
\* a validation error and returns nothing.
C13_DefinePersonaValidatesAndTrims ==
  defineCall.op = "definePersona" =>
    LET c == defineCall.config
        o == defineCall.outcome
    IN /\ o.kind = "returned" <=>
            /\ HasText(c.name) /\ HasText(c.role) /\ HasText(c.background)
            /\ HasElements(c.goals) /\ HasElements(c.behaviors)
       /\ o.kind = "returned" =>
            /\ IsTrimOf(o.value.name, c.name[1])
            /\ IsTrimOf(o.value.role, c.role[1])
            /\ IsTrimOf(o.value.background, c.background[1])
            /\ Len(o.value.goals) = Len(c.goals[1])
            /\ \A i \in 1..Len(c.goals[1]) : IsTrimOf(o.value.goals[i], c.goals[1][i])
            /\ Len(o.value.behaviors) = Len(c.behaviors[1])
            /\ \A i \in 1..Len(c.behaviors[1]) :
                 IsTrimOf(o.value.behaviors[i], c.behaviors[1][i])
       /\ o.kind # "returned" =>
            /\ o.kind = "threw" /\ "value" \notin DOMAIN o
            /\ o.error.message \in
                 {"Persona must have a name", "Persona must have a role",
                  "Persona must have a background", "Persona must have at least one goal",
                  "Persona must have at least one behavior"}

\* a descriptor was returned for a name given with whitespace around it and two goals
C13_Witness ==
  /\ defineCall.op = "definePersona"
  /\ defineCall.outcome.kind = "returned"
  /\ defineCall.config.name = Some(<<" ", "x">>)
  /\ defineCall.outcome.value.name = <<"x">>
  /\ Len(defineCall.outcome.value.goals) = 2

\* a call with goals present and empty threw
C13_WitnessRejected ==
  /\ defineCall.op = "definePersona"
  /\ defineCall.outcome.kind = "threw"
  /\ defineCall.config.goals = Some(<<>>)
  /\ HasText(defineCall.config.name)

\* C14: a template called with a customization validates, as definePersona
\* does, the fields obtained by taking each key the customization holds from the
\* customization and every other key from the template; the descriptor it then
\* returns has, for each key, the trimmed value of the customization where the
\* key was supplied (a supplied goals or behaviors list replacing the template's
\* as a whole) and the template's default where it was not.
C14_TemplateFieldsOverridePerKey ==
  defineCall.op = "template" =>
    LET c == defineCall.customization
        d == TemplateDefaults(defineCall.template)
        o == defineCall.outcome
        Supplied(k) == c[k] # Undefined
        Chosen(k) == IF Supplied(k) THEN c[k][1] ELSE Some(d[k])
    IN /\ o.kind = "returned" <=>
            /\ \A k \in {"name", "role", "background"} : HasText(Chosen(k))
            /\ \A k \in {"goals", "behaviors"} : HasElements(Chosen(k))
       /\ o.kind = "returned" =>
            /\ \A k \in {"name", "role", "background"} :
                 IF Supplied(k) THEN IsTrimOf(o.value[k], c[k][1][1])
                 ELSE o.value[k] = d[k]
            /\ \A k \in {"goals", "behaviors"} :
                 IF Supplied(k)
                   THEN /\ Len(o.value[k]) = Len(c[k][1][1])
                        /\ \A i \in 1..Len(o.value[k]) :
                             IsTrimOf(o.value[k][i], c[k][1][1][i])
                   ELSE o.value[k] = d[k]
       /\ o.kind # "returned" => o.kind = "threw" /\ "value" \notin DOMAIN o

\* a template returned a descriptor with the supplied name trimmed, the one
\* supplied goal in place of the template's three, and the template's role
C14_Witness ==
  /\ defineCall.op = "template" /\ defineCall.template = "firstTimeVisitor"
  /\ defineCall.outcome.kind = "returned"
  /\ defineCall.customization.name = Some(Some(<<" ", "J", " ">>))
  /\ defineCall.outcome.value.name = <<"J">>
  /\ defineCall.customization.goals = Some(Some(<< <<" ", "g">> >>))
  /\ defineCall.outcome.value.goals = << <<"g">> >>
  /\ defineCall.outcome.value.role = <<"First-Time Visitor">>

(***************************************************************************)
(* Properties of the report renderer.                                      *)
(***************************************************************************)
Entities ==
  {<<EntityAmp, "&">>, <<EntityLt, "<">>, <<EntityGt, ">">>, <<EntityQuot, "\"">>,
   <<EntityApos, "'">>}

StartsWith(text, prefix) ==
  Len(prefix) <= Len(text) /\ SubSeq(text, 1, Len(prefix)) = prefix

\* what a browser shows for the text: each entity read back as its character
RECURSIVE Decode(_)
Decode(text) ==
  IF text = <<>> THEN <<>>
  ELSE IF \E e \in Entities : StartsWith(text, e[1])
    THEN LET e == CHOOSE e \in Entities : StartsWith(text, e[1]) IN
           <<e[2]>> \o Decode(SubSeq(text, Len(e[1]) + 1, Len(text)))
    ELSE <<Head(text)>> \o Decode(Tail(text))

\* none of < > " ' occurs, and every & starts one of the five entities
NoLiveMarkup(text) ==
  \A i \in 1..Len(text) :
    /\ text[i] \notin {"<", ">", "\"", "'"}
    /\ text[i] = "&" =>
         \E e \in Entities : StartsWith(SubSeq(text, i, Len(text)), e[1])

EmbeddedEscaped(slot, field) == NoLiveMarkup(slot) /\ Decode(slot) = field

\* an optional text is embedded escaped when it is not empty, and not at all otherwise
EmbeddedIfAny(slot, field) ==
  IF field # Undefined /\ field[1] # <<>>
    THEN slot # Undefined /\ EmbeddedEscaped(slot[1], field[1])
    ELSE slot = Undefined

\* C15: in every page generateHtml returns, the persona identity, the
\* background, each goal and behavior, each task's name and notes, each
\* observation's location, description and recommendation, and each
\* screenshot's name, context and URL appear with none of < > " ' and with &
\* only as the start of an entity, and read back as the text of the artifact.
C15_FreeTextIsEscaped ==
  report.op = "loaded" =>
    \A p \in 1..Len(report.pages) :
      LET h == report.pages[p]
          r == report.results
      IN /\ EmbeddedEscaped(h.title, r.persona)
         /\ EmbeddedEscaped(h.heading, r.persona)
         /\ EmbeddedEscaped(h.subtitle, r.background)
         /\ Len(h.goals) = Len(r.goals)
         /\ \A i \in 1..Len(r.goals) : EmbeddedEscaped(h.goals[i], r.goals[i])
         /\ Len(h.behaviors) = Len(r.behaviors)
         /\ \A i \in 1..Len(r.behaviors) : EmbeddedEscaped(h.behaviors[i], r.behaviors[i])
         /\ Len(h.tasks) = Len(r.tasks)
         /\ \A i \in 1..Len(r.tasks) :
              /\ EmbeddedEscaped(h.tasks[i].name, r.tasks[i].name)
              /\ EmbeddedIfAny(h.tasks[i].notes, r.tasks[i].notes)
         /\ Len(h.observations) = Len(r.observations)
         /\ \A i \in 1..Len(r.observations) :
              /\ EmbeddedEscaped(h.observations[i].location, r.observations[i].location)
              /\ EmbeddedEscaped(h.observations[i].description,
                                 r.observations[i].description)
              /\ EmbeddedIfAny(h.observations[i].recommendation,
                               r.observations[i].recommendation)
         /\ Len(h.screenshots) = Len(r.screenshots)
         /\ \A i \in 1..Len(r.screenshots) :
              /\ EmbeddedEscaped(h.screenshots[i].alt, r.screenshots[i].name)
              /\ EmbeddedEscaped(h.screenshots[i].name, r.screenshots[i].name)
              /\ EmbeddedEscaped(h.screenshots[i].context, r.screenshots[i].context)
              /\ EmbeddedEscaped(h.screenshots[i].url, r.screenshots[i].url)

\* a page was rendered for a persona identity that reads like an entity, with a
\* recommendation holding quotes and a screenshot whose URL holds an ampersand
C15_Witness ==
  /\ report.op = "loaded" /\ Len(report.pages) = 1
  /\ report.results.persona = EntityText
  /\ report.pages[1].title = <<"&", "a", "m", "p", ";", "l", "t", ";">>
  /\ \E i \in 1..Len(report.results.observations) :
       /\ report.results.observations[i].recommendation = Some(QuotesText)
       /\ report.pages[1].observations[i].recommendation = Some(EntityQuot \o EntityApos)
  /\ Len(report.results.screenshots) = 1
  /\ report.pages[1].screenshots[1].url # report.results.screenshots[1].url

\* n / d rounded to the nearest integer, halves upward
RoundHalfUp(n, d) == (2 * n + d) \div (2 * d)

\* C16: in every page the task success rate shown is 0 when the artifact has
\* no task and otherwise 100 * successful / total rounded to the nearest integer,
\* halves upward; it is an integer from 0 to 100; and each of the four counts
\* shown is the number of observations of that type.
C16_RateIsRoundedPercentage ==
  report.op = "loaded" =>
    \A p \in 1..Len(report.pages) :
      LET h == report.pages[p]
          r == report.results
          total == Len(r.tasks)
          successful == Cardinality({i \in 1..total : r.tasks[i].success})
      IN /\ h.metrics.taskSuccessRate \in 0..100
         /\ h.metrics.taskSuccessRate =
              IF total = 0 THEN 0 ELSE RoundHalfUp(100 * successful, total)
         /\ \A type \in {"success", "note", "confusion", "frustration"} :
              h.counts[type] =
                Cardinality({i \in 1..Len(r.observations) : r.observations[i].type = type})

\* what of a page does not depend on when it was generated
WithoutFooter(h) == [k \in DOMAIN h \ {"footer"} |-> h[k]]

\* C17: the pages generateHtml returns for one artifact are the same in every
\* slot but the footer's generation time, whenever they are generated, and
\* generating a page leaves the artifact as it was.
C17_RenderingIsRepeatable ==
  /\ [](report.op = "loaded" =>
          \A p, q \in 1..Len(report.pages) :
            WithoutFooter(report.pages[p]) = WithoutFooter(report.pages[q]))
  /\ [][report.op = "loaded" => report'.results = report.results]_vars

\* the same artifact was rendered twice, at two different times
C17_Witness ==
  /\ report.op = "loaded" /\ Len(report.pages) = 2
  /\ report.pages[1].footer # report.pages[2].footer
  /\ Len(report.results.observations) = 2 /\ Len(report.results.tasks) = 2

(***************************************************************************)
(* Properties of the analyze command.                                      *)
(***************************************************************************)
\* the response arrived, is ok, and carries model text
ModelTextReceived ==
  /\ analyze.response # Undefined
  /\ analyze.response[1].ok
  /\ analyze.response[1].body.kind = "json"
  /\ analyze.response[1].body.content # Undefined
  /\ Len(analyze.response[1].body.content[1]) > 0
  /\ analyze.response[1].body.content[1][1].text # ""

KeyResolvable ==
  TruthyString(analyze.options.apiKey) \/ TruthyString(analyze.env.ANTHROPIC_API_KEY)

\* the file holds an object with a persona identity and a screenshots list
PassesValidation ==
  /\ analyze.file.kind = "json"
  /\ analyze.file.value.persona # Undefined /\ analyze.file.value.persona[1] # <<>>
  /\ analyze.file.value.screenshots # Undefined

\* C18: unless a response that is ok and carries model text has arrived (no
\* API key, unreadable or non-JSON file, malformed artifact, transport failure,
\* status that is not ok, unexpected response format), nothing is ever written to
\* the output file, and the process ends with a non-zero exit code.
C18_FailuresWriteNothing ==
  analyze.op = "analyze" =>
    /\ ~ModelTextReceived => analyze.outputFile = Undefined
    /\ (~ModelTextReceived /\ analyze.pc = "exited") =>
         (analyze.exit # Undefined /\ analyze.exit[1] # 0)

\* the run ended after a response that is ok but carries no text
C18_Witness ==
  /\ analyze.op = "analyze" /\ analyze.pc = "exited"
  /\ analyze.response # Undefined /\ analyze.response[1].ok
  /\ ~ModelTextReceived
  /\ analyze.exit = Some(1) /\ analyze.outputFile = Undefined

\* C19: a run sends at most one request; once the file is read, it has sent
\* exactly one whenever an API key is resolvable and the artifact passes
\* validation, zero screenshots included; and a response with model text then
\* leaves the complete Markdown file, unless writing it fails.
C19_ExactlyOneRequest ==
  analyze.op = "analyze" =>
    /\ Len(analyze.requests) <= 1
    /\ (analyze.pc \notin {"start", "readFile"} /\ KeyResolvable /\ PassesValidation)
         => Len(analyze.requests) = 1
    /\ (analyze.pc = "exited" /\ ModelTextReceived
          /\ \A i \in 1..Len(analyze.stderr) : analyze.stderr[i] # "Error: write failed")
         => (analyze.outputFile # Undefined /\ analyze.outputFile[1].complete)

\* C20: a run on an artifact without a persona identity or without a
\* screenshots list never sends a request and never writes the output file; it
\* ends with exit code 1, and, when an API key is resolvable, with the error
\* about the results file format and no uncaught exception.
C20_InvalidArtifactRejected ==
  (/\ analyze.op = "analyze"
   /\ analyze.file.kind = "json"
   /\ ~PassesValidation) =>
    /\ analyze.requests = <<>>
    /\ analyze.outputFile = Undefined
    /\ analyze.pc \in {"start", "readFile", "exited"}
    /\ analyze.pc = "exited" =>
         /\ analyze.exit = Some(1)
         /\ KeyResolvable =>
              /\ analyze.stderr = <<"Error: Invalid PersonaSpec results file format">>
              /\ analyze.uncaught = Undefined

\* with a key given, the run ended on an artifact that has no screenshots list
C20_Witness ==
  /\ analyze.op = "analyze" /\ analyze.pc = "exited"
  /\ analyze.options.apiKey = Some("sk-ant-option")
  /\ analyze.file.kind = "json"
  /\ analyze.file.value.persona # Undefined
  /\ analyze.file.value.screenshots = Undefined
  /\ analyze.exit = Some(1)

\* C21: when neither --api-key nor ANTHROPIC_API_KEY holds a non-empty key, the
\* run never reads the results file, sends no request and writes no output, and
\* it ends with exit code 1 and the error about the key; when both hold a key,
\* the key of the run, and of its request, is the one given as --api-key.
C21_NoKeyFailsBeforeRead ==
  analyze.op = "analyze" =>
    /\ ~KeyResolvable =>
         /\ analyze.fileReads = 0
         /\ analyze.requests = <<>>
         /\ analyze.outputFile = Undefined
         /\ analyze.pc \in {"start", "exited"}
         /\ analyze.pc = "exited" =>
              /\ analyze.exit = Some(1)
              /\ analyze.stderr = <<"Error: Anthropic API key required.">>
    /\ (TruthyString(analyze.options.apiKey) /\ TruthyString(analyze.env.ANTHROPIC_API_KEY)) =>
         /\ analyze.pc # "start" => analyze.apiKey = analyze.options.apiKey
         /\ \A i \in 1..Len(analyze.requests) :
              analyze.requests[i].apiKey = analyze.options.apiKey[1]

\* the run ended with an empty --api-key and an empty environment variable
C21_Witness ==
  /\ analyze.op = "analyze" /\ analyze.pc = "exited"
  /\ analyze.options.apiKey = Some("") /\ analyze.env.ANTHROPIC_API_KEY = Some("")
  /\ analyze.exit = Some(1) /\ analyze.fileReads = 0

\* the decimal numeral of an integer between -9 and 99
Numeral(n) ==
  LET digits(m) == IF m < 10 THEN <<ToString(m)>>
                   ELSE <<ToString(m \div 10), ToString(m % 10)>>
  IN IF n < 0 THEN <<"-">> \o digits(0 - n) ELSE digits(n)

\* the screenshots list of the artifact in the results file
ArtifactScreenshots == analyze.file.value.screenshots[1]

\* the run has passed validation and chosen the screenshots to analyze
Selected ==
  /\ analyze.op = "analyze"
  /\ analyze.screenshotsToAnalyze # Undefined

\* C22: for every artifact with screenshot list S and every non-negative
\* maxScreenshots n, the screenshots the run selects are the first min(n, |S|)
\* elements of S in their order, and the request announces that many.
C22_SelectsStablePrefix ==
  Selected =>
    \A n \in 0..10 :
      analyze.options.maxScreenshots = Numeral(n) =>
        LET S == ArtifactScreenshots
            k == IF n < Len(S) THEN n ELSE Len(S)
        IN /\ Len(analyze.screenshotsToAnalyze[1]) = k
           /\ \A i \in 1..k : analyze.screenshotsToAnalyze[1][i] = S[i]
           /\ \A r \in 1..Len(analyze.requests) :
                analyze.requests[r].content[1].text = <<"intro", k>>

\* one of two different screenshots was selected, and the request was sent
C22_Witness ==
  /\ Selected
  /\ analyze.options.maxScreenshots = <<"1">>
  /\ Len(ArtifactScreenshots) = 2
  /\ ArtifactScreenshots[1] # ArtifactScreenshots[2]
  /\ analyze.screenshotsToAnalyze = Some(<<ArtifactScreenshots[1]>>)
  /\ Len(analyze.requests) = 1

\* the number of blocks of the given type in a message content
BlocksOfType(content, type) == Cardinality({i \in 1..Len(content) : content[i].type = type})

\* C23: the message of every request holds, after the intro that announces the
\* number of selected screenshots, one image block followed by one text block
\* naming the screenshot, its context and its URL for each selected screenshot,
\* in selection order, also when a screenshot's encoded image is empty; so the
\* image blocks are as many as the selected screenshots, the number the report
\* gives as analyzed.
C23_BlockPerSelectedScreenshot ==
  Selected =>
    \A r \in 1..Len(analyze.requests) :
      LET content == analyze.requests[r].content
          chosen == analyze.screenshotsToAnalyze[1]
      IN /\ content[1].text = <<"intro", Len(chosen)>>
         /\ BlocksOfType(content, "image") = Len(chosen)
         /\ Len(content) >= 1 + 2 * Len(chosen)
         /\ \A i \in 1..Len(chosen) :
              /\ content[2 * i].type = "image"
              /\ content[2 * i + 1] =
                   [type |-> "text",
                    text |-> <<"screenshot", chosen[i].name, chosen[i].context,
                               chosen[i].url>>]
         /\ analyze.outputMd # Undefined =>
              analyze.outputMd[1].screenshotsAnalyzed = Len(chosen)

\* the run ended after a response whose status is not a success
EndedOnHttpError ==
  /\ analyze.op = "analyze" /\ analyze.pc = "exited"
  /\ analyze.response # Undefined /\ ~analyze.response[1].ok

\* C24: after a response with a status s that is not a success, the first line
\* reported is the error.message of the body when the body is JSON and carries
\* one, and 'API request failed with status s' otherwise; the auth hint follows
\* exactly when s = 401, the rate-limit hint exactly when s = 429, and nothing
\* else is reported.
C24_MessageAndHintsByStatus ==
  EndedOnHttpError =>
    LET response == analyze.response[1]
        carried == response.body.kind = "json" /\ response.body.error # Undefined
                   /\ response.body.error[1].message # ""
        hints == SubSeq(analyze.stderr, 2, Len(analyze.stderr))
    IN /\ Len(analyze.stderr) >= 1
       /\ analyze.stderr[1].error.text =
            (IF carried THEN response.body.error[1].message
             ELSE "API request failed with status ")
       /\ analyze.stderr[1].error.status =
            (IF carried THEN Undefined ELSE Some(response.status))
       /\ (\E i \in 1..Len(hints) : hints[i] = AuthHint) <=> response.status = 401
       /\ (\E i \in 1..Len(hints) : hints[i] = RateLimitHint) <=> response.status = 429
       /\ Len(hints) <= 1

\* a 429 whose body is no JSON: the default message and the rate-limit hint
C24_Witness ==
  /\ EndedOnHttpError
  /\ analyze.response[1].status = 429 /\ analyze.response[1].body.kind = "notjson"
  /\ analyze.stderr = << [error |-> DefaultMessage(429)], RateLimitHint >>

\* C28: for every integer n given as --max-screenshots, zero and negative ones
\* included, and every artifact, the run selects, and announces in its request,
\* at most max(n, 0) screenshots.
C28_SelectionBoundedByMax ==
  Selected =>
    \A n \in -9..10 :
      analyze.options.maxScreenshots = Numeral(n) =>
        LET most == IF n > 0 THEN n ELSE 0
        IN /\ Len(analyze.screenshotsToAnalyze[1]) <= most
           /\ \A r \in 1..Len(analyze.requests) :
                analyze.requests[r].content[1].text[2] <= most

(***************************************************************************)
(* Properties of the report command.                                       *)
(***************************************************************************)
\* the results file is missing, is no JSON, or holds an artifact without a
\* persona identity or without the observations list
ReportInputRejected ==
  \/ report.file.kind \in {"ENOENT", "notjson"}
  \/ report.file.value.persona = Undefined
  \/ report.file.value.persona[1] = <<>>
  \/ report.file.value.observations = Undefined

\* C27: when the results file is missing, is not valid JSON, or holds an
\* artifact without the persona identity or the observations list, the report
\* command never calls fs.writeFile, leaves no output file and ends with a
\* non-zero exit code; a run calls fs.writeFile at most once, with the
\* rendering of the whole artifact, and the file a resolved write leaves is
\* that rendering, complete.
C27_ReportFailuresWriteNothing ==
  report.op = "report" =>
    /\ ReportInputRejected =>
         /\ report.writes = <<>>
         /\ report.outputFile = Undefined
         /\ report.pc = "exited" => (report.exit # Undefined /\ report.exit[1] # 0)
    /\ Len(report.writes) <= 1
    /\ \A i \in 1..Len(report.writes) :
         report.writes[i] = [path |-> report.options.output,
                             data |-> generateHtml(Parsed(report.file.value), now)]
    /\ report.outputFile # Undefined =>
         /\ Len(report.writes) = 1
         /\ report.outputFile[1].content = generateHtml(Parsed(report.file.value), now)
         /\ report.exit = Some(0) => report.outputFile[1].complete

\* the report of an artifact with two screenshots was written
C27_Witness ==
  /\ report.op = "report" /\ report.pc = "exited" /\ report.exit = Some(0)
  /\ report.outputFile # Undefined /\ report.outputFile[1].complete
  /\ Len(report.outputFile[1].content.screenshots) = 2

\* the run ended on an artifact that has no observations list
C27_WitnessRejected ==
  /\ report.op = "report" /\ report.pc = "exited" /\ report.exit = Some(1)
  /\ report.file.kind = "json" /\ report.file.value.observations = Undefined

(***************************************************************************)
(* Properties of the init command.                                         *)
(***************************************************************************)
Scaffold == 1..Len(ScaffoldPaths)

TemplateFile(i) ==
  [complete |-> TRUE,
   content |-> CASE i = 1 -> "PLAYWRIGHT_CONFIG"
                 [] i = 2 -> "OBSERVATION_COLLECTOR_WRAPPER"
                 [] i = 3 -> "EXAMPLE_PERSONA_TEST"]

\* C25: without --force, a scaffold file that existed when init was started
\* holds, at every moment of the run and after it, the content it held then,
\* and once the run has ended normally each such file was reported skipped and
\* each file that was missing holds its template; with --force, once the run
\* has ended normally all three files hold their templates.
C25_InitKeepsExistingFiles ==
  initCommand.op = "init" =>
    /\ ~initCommand.options.force =>
         \A i \in Scaffold :
           initCommand.before[i] # Undefined => initCommand.files[i] = initCommand.before[i]
    /\ (initCommand.pc = "exited" /\ initCommand.exit = Some(0)) =>
         \A i \in Scaffold :
           IF ~initCommand.options.force /\ initCommand.before[i] # Undefined
             THEN \E l \in 1..Len(initCommand.stdout) :
                    initCommand.stdout[l] = <<"Skipped", ScaffoldPaths[i]>>
             ELSE initCommand.files[i] = Some(TemplateFile(i))

\* a run without --force ended after it skipped the second file and created
\* the other two
C25_Witness ==
  /\ initCommand.op = "init" /\ initCommand.pc = "exited" /\ initCommand.exit = Some(0)
  /\ ~initCommand.options.force
  /\ initCommand.before = <<Undefined, Some(UserFile), Undefined>>
  /\ initCommand.files = <<Some(TemplateFile(1)), Some(UserFile), Some(TemplateFile(3))>>

(***************************************************************************)
(* Properties of the site's navigation.                                    *)
(***************************************************************************)
IsOpen(page) == "is-open" \in page.linksClasses

\* a click on the toggle, on a link or outside #nav has been dispatched
MenuWasClicked ==
  \E e \in 1..Len(nav.events) : nav.events[e] \in {"nav-toggle", "link", "outside"}

\* C30: once the toggle, a link or a place outside #nav has been clicked,
\* aria-expanded of the toggle is 'true' when the link list has the class
\* is-open and 'false' when it has not; a click on the toggle flips whether
\* the list is open, and a click on a link or outside #nav leaves it closed.
C30_AriaExpandedMirrorsOpen ==
  /\ [](nav.op = "page" /\ MenuWasClicked =>
          nav.ariaExpanded = Some(IF IsOpen(nav) THEN "true" ELSE "false"))
  /\ [][(nav.op = "page" /\ nav'.events # nav.events) =>
          LET target == nav'.events[Len(nav'.events)]
          IN /\ target = "nav-toggle" => (IsOpen(nav') <=> ~IsOpen(nav))
             /\ target \in {"link", "outside"} => ~IsOpen(nav')
      ]_vars

\* the menu was opened by the toggle, closed by a click outside and opened again
C30_Witness ==
  /\ nav.op = "page"
  /\ nav.events = <<"nav-toggle", "outside", "nav-toggle">>
  /\ IsOpen(nav) /\ nav.ariaExpanded = Some("true")

====
